---- MODULE Spec2Model ----
(***************************************************************************)
(* Curriculum position and comprehension engine of hanzi-vocab-val:        *)
(* app/validator.py (VocabValidator), app/recommender.py                   *)
(* (ContentRecommender), app/models.py (TIER_CONFIG) and the request       *)
(* handlers of app/main.py.                                                *)
(*                                                                         *)
(* Text is modelled as the code sees it.  A string is a sequence of        *)
(* characters; a hanzi is written as its pinyin syllable ("wo" is the      *)
(* character U+6211), homophones carry a suffix.  jieba.cut is an external *)
(* segmenter: a request carries the segment list that jieba.cut returns    *)
(* for its text.  Floats that are quotients of small counts are kept as    *)
(* exact fractions; IEEE division is correctly rounded, so comparing k/n   *)
(* with a decimal literal gives the same answer as comparing the rationals *)
(* for the counts that occur here.                                         *)
(***************************************************************************)
EXTENDS Integers, Sequences, FiniteSets, TLC

\* ------------------------------------------------------------------ bounds
MaxTextLen == 2      \* segments in a request text, the LongTexts aside
MaxFocusLen == 2     \* entries of a focus_words / target_words list
MaxAllowedLen == 1   \* entries of an allowed_words list
MaxHsk == 2          \* caller's hsk level ranges over 1..MaxHsk
MaxLesson == 2       \* caller's lesson ranges over 1..MaxLesson
MaxStories == 1      \* stories in a content file
MaxAudiobooks == 1   \* audiobooks in a content file
MaxCap == 2          \* items_per_tier ranges over 0..MaxCap

\* ------------------------------------------------------- python primitives
Digits == {"0", "1", "2", "3", "4", "5", "6", "7", "8", "9"}

DigitVal(c) ==
  CASE c = "0" -> 0 [] c = "1" -> 1 [] c = "2" -> 2 [] c = "3" -> 3
    [] c = "4" -> 4 [] c = "5" -> 5 [] c = "6" -> 6 [] c = "7" -> 7
    [] c = "8" -> 8 [] c = "9" -> 9

Whitespace == {" ", "\\n", "\\t", "\\r"}

\* str.replace(old, ""): non-overlapping occurrences, left to right
RECURSIVE str_remove(_, _)
str_remove(s, old) ==
  IF Len(s) < Len(old) THEN s
  ELSE IF SubSeq(s, 1, Len(old)) = old
       THEN str_remove(SubSeq(s, Len(old) + 1, Len(s)), old)
       ELSE <<Head(s)>> \o str_remove(Tail(s), old)

\* str.split(sep): the list of parts, cur is the part being collected
RECURSIVE str_split_from(_, _, _)
str_split_from(s, sep, cur) ==
  IF Len(s) < Len(sep) THEN <<cur \o s>>
  ELSE IF SubSeq(s, 1, Len(sep)) = sep
       THEN <<cur>> \o str_split_from(SubSeq(s, Len(sep) + 1, Len(s)), sep, <<>>)
       ELSE str_split_from(Tail(s), sep, Append(cur, Head(s)))

str_split(s, sep) == str_split_from(s, sep, <<>>)

\* str.strip(): leading and trailing whitespace removed
RECURSIVE str_lstrip(_)
str_lstrip(s) ==
  IF s # <<>> /\ Head(s) \in Whitespace THEN str_lstrip(Tail(s)) ELSE s

RECURSIVE str_rstrip(_)
str_rstrip(s) ==
  IF s # <<>> /\ s[Len(s)] \in Whitespace
  THEN str_rstrip(SubSeq(s, 1, Len(s) - 1)) ELSE s

str_strip(s) == str_rstrip(str_lstrip(s))

\* int(s): optional surrounding whitespace, optional sign, decimal digits
\* (the alphabet of the model has no "_" digit separators)
int_body(s) ==
  LET t == str_strip(s)
  IN  IF t # <<>> /\ Head(t) \in {"+", "-"} THEN Tail(t) ELSE t

int_ok(s) ==
  /\ int_body(s) # <<>>
  /\ \A i \in DOMAIN int_body(s) : int_body(s)[i] \in Digits

RECURSIVE digits_val(_)
digits_val(d) ==
  IF d = <<>> THEN 0
  ELSE 10 * digits_val(SubSeq(d, 1, Len(d) - 1)) + DigitVal(d[Len(d)])

int_val(s) ==
  LET t == str_strip(s)
  IN  IF Head(t) = "-" THEN 0 - digits_val(int_body(s)) ELSE digits_val(int_body(s))

\* round(n/d * scale) for n >= 0, d > 0: Python rounds a float to the nearest
\* value at the requested precision, an exact tie going to the even neighbour
py_round(n, d, scale) ==
  LET q == (n * scale) \div d
      r == (n * scale) % d
  IN  IF 2 * r > d THEN q + 1
      ELSE IF 2 * r < d THEN q
      ELSE IF q % 2 = 0 THEN q ELSE q + 1

Min(a, b) == IF a < b THEN a ELSE b

\* list[:k]
Take(s, k) == SubSeq(s, 1, Min(k, Len(s)))

\* set(list)
ToSet(s) == {s[i] : i \in DOMAIN s}

\* the lists of length <= n over S
SeqsUpTo(S, n) == UNION {[1..k -> S] : k \in 0..n}

\* --------------------------------------------------------------- vocabulary
W_wo == <<"wo">>
W_nihao == <<"ni", "hao">>
W_xuexi == <<"xue", "xi">>
W_keneng == <<"ke", "neng">>
W_pisa == <<"pi", "sa">>
T_bang == <<"fw_bang">>

\* self.always_safe
always_safe ==
  { <<"wo">>, <<"ni">>, <<"ta_m">>, <<"ta_f">>, <<"ta_n">>,
    <<"wo", "men">>, <<"ni", "men">>, <<"ta_m", "men">>,
    <<"de">>, <<"le">>, <<"ma">>, <<"ne">>, <<"ba">>, <<"a">>, <<"o">>, <<"en">>,
    <<"shi">>, <<"you">>, <<"zai">>, <<"he">>, <<"yu">>, <<"huo">>, <<"dan">>, <<"er">>,
    <<"zhe">>, <<"na">>, <<"shen", "me">>, <<"zen", "me">>, <<"wei", "shen", "me">>,
    <<"na3">>, <<"na3", "li">>,
    <<"hen">>, <<"tai">>, <<"zui">>, <<"dou">>, <<"ye">>, <<"hai">>, <<"jiu">>, <<"cai">>,
    <<"bu">>, <<"mei">>, <<"bie">>, <<"qing">>, <<"yao">>, <<"hui">>, <<"neng">>,
    <<"ke", "yi3">>,
    <<"yi">>, <<"er4">>, <<"san">>, <<"si">>, <<"wu">>, <<"liu">>, <<"qi">>, <<"ba1">>,
    <<"jiu3">>, <<"shi2">>,
    <<"ge">>, <<"xie">>, <<"dian">>, <<"xia">>, <<"shang">>, <<"li">>, <<"wai">> }

\* the character set of VocabValidator._is_punctuation ("fw_" = full width)
punctuation ==
  { "fw_comma", "fw_stop", "fw_bang", "fw_question", "fw_enum_comma",
    "fw_semicolon", "fw_colon", "'", "fw_lparen", "fw_rparen",
    "fw_lbracket", "fw_rbracket", "fw_ltitle", "fw_rtitle", "ellipsis",
    "em_dash", "middle_dot", ",", ".", "!", "?", ";", ":", "\"", "(", ")",
    "[", "]", "<", ">", "-", "_", " ", "\\n", "\\t" }

_is_punctuation(char) == \A i \in DOMAIN char : char[i] \in punctuation

\* words = [w for w in words if w.strip() and not self._is_punctuation(w)]
FilterWords(segments) ==
  LET Keep(w) == str_strip(w) # <<>> /\ ~ _is_punctuation(w)
  IN  SelectSeq(segments, Keep)

\* the position string "hsk<h>-l<l>" of a curriculum file, h and l one digit
DigitChar(n) == CHOOSE c \in Digits : DigitVal(c) = n
PosStr(h, l) == <<"h", "s", "k", DigitChar(h), "-", "l", DigitChar(l)>>

\* data/curriculum.json + data/version.txt as the sync leaves them on disk
CurriculumFiles ==
  { \* the always-safe W_wo is placed late, as the fixture places "neng"
    [ words |-> (W_wo :> PosStr(2, 2)) @@ (W_nihao :> PosStr(1, 1))
                @@ (W_xuexi :> PosStr(1, 2)) @@ (W_keneng :> PosStr(2, 1)),
      version |-> "test-v1" ],
    \* a malformed position string, and no entry for W_wo and W_xuexi
    [ words |-> (W_nihao :> PosStr(1, 2)) @@ (W_keneng :> <<"i", "n", "v">>),
      version |-> "test-v2" ] }

\* the segments jieba.cut may return for a request text
Segments == {W_wo, W_nihao, W_xuexi, W_keneng, T_bang}

\* longer texts: 2 of 3, 1 of 4 and 1 of 20 tokens outside a learner's
\* vocabulary, and three different words
LongTexts ==
  { <<W_keneng, W_nihao, W_keneng>>,
    <<W_wo, W_xuexi, W_nihao>>,
    <<W_keneng, W_nihao, W_nihao, W_nihao>>,
    [i \in 1..20 |-> IF i = 20 THEN W_keneng ELSE W_nihao] }

Texts == SeqsUpTo(Segments, MaxTextLen) \cup LongTexts

\* the words a caller may name in target_words / focus_words / allowed_words
FocusWords == {W_wo, W_xuexi}
FocusLists == SeqsUpTo(FocusWords, MaxFocusLen)
AllowedWords == {W_keneng}
AllowedLists == SeqsUpTo(AllowedWords, MaxAllowedLen)

\* ----------------------------------------------------------- content files
\* n copies of segment w
Rep(w, n) == [i \in 1..n |-> w]

\* fullText of a story or audiobook, as the segments jieba.cut returns
FullTexts ==
  << <<W_nihao>>,                                       \* every word taught first
     Rep(W_nihao, 19) \o <<W_keneng>>,                  \* 19 of 20
     Rep(W_nihao, 17) \o Rep(W_keneng, 3),              \* 17 of 20
     Rep(W_nihao, 3) \o <<T_bang, W_keneng>>,           \* 3 of 4
     <<W_nihao, W_xuexi, W_keneng, W_keneng>>,          \* 1, 2 or 4 of 4
     <<W_pisa, T_bang>> >>                              \* no curriculum word

StoryTexts == 1..Len(FullTexts)
\* an audiobook may come without transcript (fullText "")
AudiobookTexts == {0, 2}

TextOf(k) == IF k = 0 THEN <<>> ELSE FullTexts[k]

StoryIds == <<"story-1", "story-2", "story-3", "story-4">>
AudiobookIds == <<"audio-1", "audio-2", "audio-3">>

\* the lesson structures of data/content.json
Vocabularies ==
  { [ vocabulary |-> << [id |-> "v1", hanzi |-> W_nihao],
                        [id |-> "v2", hanzi |-> W_xuexi],
                        [id |-> "v3", hanzi |-> W_keneng] >>,
      lessonOrder |-> <<"lesson-1", "lesson-2", "lesson-3">>,
      lessonWordMap |-> ("lesson-1" :> <<"v1">>) @@ ("lesson-2" :> <<"v2">>)
                        @@ ("lesson-3" :> <<"v3">>),
      version |-> "content-v1" ],
    [ vocabulary |-> << [id |-> "v1", hanzi |-> W_nihao],
                        [id |-> "v2", hanzi |-> W_xuexi] >>,
      lessonOrder |-> <<"lesson-1", "lesson-2">>,
      lessonWordMap |-> ("lesson-2" :> <<"v1", "v2", "v1">>),
      version |-> "content-v2" ] }

\* data/content.json: a lesson structure, stories and audiobooks
ContentFiles ==
  { [ vocabulary |-> v.vocabulary,
      lessonOrder |-> v.lessonOrder,
      lessonWordMap |-> v.lessonWordMap,
      version |-> v.version,
      stories |-> [ i \in DOMAIN st |->
                      [ id |-> StoryIds[i], title |-> StoryIds[i], hskLevel |-> 1,
                        fullText |-> TextOf(st[i]) ] ],
      audiobooks |-> [ i \in DOMAIN ab |->
                         [ id |-> AudiobookIds[i], title |-> AudiobookIds[i],
                           hskLevel |-> 1, fullText |-> TextOf(ab[i]) ] ] ] :
      v \in Vocabularies,
      st \in SeqsUpTo(StoryTexts, MaxStories),
      ab \in SeqsUpTo(AudiobookTexts, MaxAudiobooks) }

LessonIds == {"lesson-1", "lesson-2", "lesson-3", "lesson-9"}
ContentTypes == {"story", "audiobook", "all", "podcast"}

\* -------------------------------------------------------------------- state
VARIABLES
  curriculum,    \* VocabValidator.curriculum: word -> position string
  version,       \* VocabValidator.version
  loaded,        \* VocabValidator.loaded
  jieba_dict,    \* words registered with jieba.add_word
  rec,           \* the ContentRecommender object
  curriculum_file,  \* data/curriculum.json + version.txt as last read by load
  content_file,     \* data/content.json as last read by load
  request,       \* the request being answered
  response       \* the response of the handler, until it is sent

vars == <<curriculum, version, loaded, jieba_dict, rec, curriculum_file,
          content_file, request, response>>

NoRequest == [op |-> "none"]
NoResponse == [kind |-> "none"]
NotReady == [kind |-> "http_error", status |-> 503]

Idle == response.kind = "none"

\* no cache file has been read yet
NoCurriculumFile == [words |-> [w \in {} |-> <<>>], version |-> ""]
NoContentFile ==
  [ vocabulary |-> <<>>, lessonOrder |-> <<>>,
    lessonWordMap |-> [k \in {} |-> <<>>], version |-> "",
    stories |-> <<>>, audiobooks |-> <<>> ]

\* ContentRecommender.__init__
NewRecommender ==
  [ loaded |-> FALSE,
    vocab_by_id |-> [k \in {} |-> <<>>],
    vocab_by_hanzi |-> [k \in {} |-> <<>>],
    lesson_order |-> <<>>,
    lesson_word_map |-> [k \in {} |-> <<>>],
    cumulative_words |-> [k \in {} |-> {}],
    stories |-> <<>>,
    audiobooks |-> <<>>,
    version |-> "" ]

\* VocabValidator.__init__, ContentRecommender.__init__
Init ==
  /\ rec = NewRecommender
  /\ curriculum = [w \in {} |-> <<>>]
  /\ version = ""
  /\ loaded = FALSE
  /\ jieba_dict = {}
  /\ curriculum_file = NoCurriculumFile
  /\ content_file = NoContentFile
  /\ request = NoRequest
  /\ response = NoResponse

\* ------------------------------------------------------------ VocabValidator
_parse_position(position_str) ==
  LET parts == str_split(str_remove(position_str, <<"h", "s", "k">>), <<"-", "l">>)
  IN  IF Len(parts) >= 2 /\ int_ok(parts[1]) /\ int_ok(parts[2])
      THEN <<int_val(parts[1]), int_val(parts[2])>>
      ELSE <<0, 0>>

\* _is_word_safe with "<" for the lesson of the caller's level
_is_word_safe_strict(cur, word, user_hsk, user_lesson) ==
  IF word \in always_safe THEN TRUE
  ELSE IF word \notin DOMAIN cur THEN FALSE
  ELSE LET pos == _parse_position(cur[word])
       IN  IF pos[1] < user_hsk THEN TRUE
           ELSE IF pos[1] = user_hsk /\ pos[2] < user_lesson THEN TRUE
           ELSE FALSE

_is_word_safe(cur, word, user_hsk, user_lesson) ==
  IF word \in always_safe THEN TRUE
  ELSE IF word \notin DOMAIN cur THEN FALSE
  ELSE LET pos == _parse_position(cur[word])
       IN  IF pos[1] < user_hsk THEN TRUE
           ELSE IF pos[1] = user_hsk /\ pos[2] <= user_lesson THEN TRUE
           ELSE FALSE

_is_target_word(cur, word, user_hsk, user_lesson) ==
  IF word \notin DOMAIN cur THEN FALSE
  ELSE LET pos == _parse_position(cur[word])
       IN  pos[1] = user_hsk /\ pos[2] = user_lesson

\* validate_class with words outside the curriculum appended to forbidden
validate_class_unknown_forbidden(cur, word, user_hsk, user_lesson, target_set) ==
  IF word \in always_safe THEN "safe"
  ELSE IF word \in target_set THEN "target"
  ELSE IF word \notin DOMAIN cur THEN "forbidden"
  ELSE IF _is_word_safe(cur, word, user_hsk, user_lesson) THEN "safe"
  ELSE IF _is_target_word(cur, word, user_hsk, user_lesson) THEN "target"
  ELSE "forbidden"

\* the cascade of the loop body of validate: the list a word is appended to
validate_class(cur, word, user_hsk, user_lesson, target_set) ==
  IF word \in always_safe THEN "safe"
  ELSE IF word \in target_set THEN "target"
  ELSE IF word \notin DOMAIN cur THEN "unknown"
  ELSE IF _is_word_safe(cur, word, user_hsk, user_lesson) THEN "safe"
  ELSE IF _is_target_word(cur, word, user_hsk, user_lesson) THEN "target"
  ELSE "forbidden"

\* validate with a word of target_words appended to targets whatever list
\* the cascade appends it to
validate_targets_twice(cur, text, user_hsk, user_lesson, target_words) ==
  LET target_set == ToSet(target_words)
      words == FilterWords(text)
      Class(w) == validate_class(cur, w, user_hsk, user_lesson, target_set)
      IsSafe(w) == Class(w) = "safe"
      IsTarget(w) == Class(w) = "target" \/ w \in target_set
      IsForbidden(w) == Class(w) = "forbidden"
      IsUnknown(w) == Class(w) = "unknown"
      safe == SelectSeq(words, IsSafe)
      targets == SelectSeq(words, IsTarget)
      forbidden == SelectSeq(words, IsForbidden)
      unknown == SelectSeq(words, IsUnknown)
  IN  [ kind |-> "validate",
        valid |-> Len(forbidden) = 0,
        words_found |-> words,
        safe_words |-> ToSet(safe),
        target_words |-> ToSet(targets),
        forbidden_words |-> ToSet(forbidden),
        unknown_words |-> ToSet(unknown),
        stats |-> [ total_words |-> Len(words),
                    unique_words |-> Cardinality(ToSet(words)),
                    safe_count |-> Cardinality(ToSet(safe)),
                    target_count |-> Cardinality(ToSet(targets)),
                    forbidden_count |-> Cardinality(ToSet(forbidden)),
                    unknown_count |-> Cardinality(ToSet(unknown)),
                    safe_percentage |->
                      IF Len(words) > 0
                      THEN py_round(Len(safe) * 100, Len(words), 10) ELSE 0 ] ]

validate(cur, text, user_hsk, user_lesson, target_words) ==
  LET target_set == ToSet(target_words)
      words == FilterWords(text)
      Class(w) == validate_class(cur, w, user_hsk, user_lesson, target_set)
      IsSafe(w) == Class(w) = "safe"
      IsTarget(w) == Class(w) = "target"
      IsForbidden(w) == Class(w) = "forbidden"
      IsUnknown(w) == Class(w) = "unknown"
      safe == SelectSeq(words, IsSafe)
      targets == SelectSeq(words, IsTarget)
      forbidden == SelectSeq(words, IsForbidden)
      unknown == SelectSeq(words, IsUnknown)
  IN  [ kind |-> "validate",
        valid |-> Len(forbidden) = 0,
        words_found |-> words,
        safe_words |-> ToSet(safe),
        target_words |-> ToSet(targets),
        forbidden_words |-> ToSet(forbidden),
        unknown_words |-> ToSet(unknown),
        stats |-> [ total_words |-> Len(words),
                    unique_words |-> Cardinality(ToSet(words)),
                    safe_count |-> Cardinality(ToSet(safe)),
                    target_count |-> Cardinality(ToSet(targets)),
                    forbidden_count |-> Cardinality(ToSet(forbidden)),
                    unknown_count |-> Cardinality(ToSet(unknown)),
                    \* in tenths of a percent
                    safe_percentage |->
                      IF Len(words) > 0
                      THEN py_round(Len(safe) * 100, Len(words), 10) ELSE 0 ] ]

\* absolute_lesson with levels two lessons wide
absolute_lesson_narrow(hsk, lesson) == (hsk - 1) * 2 + lesson

\* (hsk - 1) * 10 + lesson
absolute_lesson(hsk, lesson) == (hsk - 1) * 10 + lesson

\* lesson_class without the always-safe test
lesson_class_no_always_safe(cur, word, current_absolute_lesson, focus_set) ==
  IF word \in focus_set THEN "focus"
  ELSE IF word \notin DOMAIN cur THEN "unknown"
  ELSE LET pos == _parse_position(cur[word])
       IN  IF absolute_lesson(pos[1], pos[2]) > current_absolute_lesson
           THEN "invalid" ELSE "known"

\* lesson_class with the always-safe test ahead of the focus test
lesson_class_safe_first(cur, word, current_absolute_lesson, focus_set) ==
  IF word \in always_safe THEN "always_safe"
  ELSE IF word \in focus_set THEN "focus"
  ELSE IF word \notin DOMAIN cur THEN "unknown"
  ELSE LET pos == _parse_position(cur[word])
       IN  IF absolute_lesson(pos[1], pos[2]) > current_absolute_lesson
           THEN "invalid" ELSE "known"

\* lesson_class with ">=" for the lesson ceiling
lesson_class_geq(cur, word, current_absolute_lesson, focus_set) ==
  IF word \in focus_set THEN "focus"
  ELSE IF word \in always_safe THEN "always_safe"
  ELSE IF word \notin DOMAIN cur THEN "unknown"
  ELSE LET pos == _parse_position(cur[word])
       IN  IF absolute_lesson(pos[1], pos[2]) >= current_absolute_lesson
           THEN "invalid" ELSE "known"

\* the cascade of the loop body of validate_lesson
lesson_class(cur, word, current_absolute_lesson, focus_set) ==
  IF word \in focus_set THEN "focus"
  ELSE IF word \in always_safe THEN "always_safe"
  ELSE IF word \notin DOMAIN cur THEN "unknown"
  ELSE LET pos == _parse_position(cur[word])
       IN  IF absolute_lesson(pos[1], pos[2]) > current_absolute_lesson
           THEN "invalid" ELSE "known"

NoSuggestion == [kind |-> "none", bad_words |-> <<>>, missing |-> {}]

\* the suggestion of validate_lesson; bad lists the words of invalid_words.
\* "Replace these words with simpler alternatives: ..." is kind "replace",
\* "The text is missing these focus words: ..." is kind "missing"
lesson_suggestion_missing_first(bad, focus_missing) ==
  IF focus_missing # {}
  THEN [kind |-> "missing", bad_words |-> <<>>, missing |-> focus_missing]
  ELSE IF Len(bad) # 0
  THEN [kind |-> "replace", bad_words |-> bad, missing |-> {}]
  ELSE NoSuggestion

lesson_suggestion(bad, focus_missing) ==
  IF ~ (Len(bad) = 0)
  THEN [kind |-> "replace", bad_words |-> bad, missing |-> {}]
  ELSE IF focus_missing # {}
  THEN [kind |-> "missing", bad_words |-> <<>>, missing |-> focus_missing]
  ELSE NoSuggestion

validate_lesson(cur, text, lesson_number, focus_words, hsk_level) ==
  LET focus_set == ToSet(focus_words)
      words == FilterWords(text)
      current_absolute_lesson == absolute_lesson(hsk_level, lesson_number)
      Class(w) == lesson_class(cur, w, current_absolute_lesson, focus_set)
      IsInvalid(w) == Class(w) = "invalid"
      IsUnknown(w) == Class(w) = "unknown"
      IsFocus(w) == Class(w) = "focus"
      bad == SelectSeq(words, IsInvalid)
      word_lesson(w) == LET pos == _parse_position(cur[w])
                        IN  absolute_lesson(pos[1], pos[2])
      invalid_words == [ i \in 1..Len(bad) |->
                           [ word |-> bad[i],
                             lesson_id |-> word_lesson(bad[i]),
                             \* "Word from lesson {a}, but current is {b}"
                             reason |-> <<word_lesson(bad[i]), current_absolute_lesson>> ] ]
      unknown_words == SelectSeq(words, IsUnknown)
      focus_found == ToSet(SelectSeq(words, IsFocus))
      focus_missing == focus_set \ focus_found
      is_valid == Len(invalid_words) = 0
      suggestion == lesson_suggestion(bad, focus_missing)
  IN  [ kind |-> "validate_lesson",
        valid |-> is_valid /\ Cardinality(focus_missing) = 0,
        invalid_words |-> invalid_words,
        focus_words_found |-> focus_found,
        focus_words_missing |-> focus_missing,
        unknown_words |-> ToSet(unknown_words),
        suggestion |-> suggestion,
        stats |-> [ total_words |-> Len(words),
                    unique_words |-> Cardinality(ToSet(words)),
                    invalid_count |-> Len(invalid_words),
                    unknown_count |-> Cardinality(ToSet(unknown_words)),
                    \* "{found}/{given}"
                    focus_coverage |-> <<Cardinality(focus_found), Len(focus_words)>> ] ]

\* reading_class with the curriculum looked up ahead of the allowed set
reading_class_curriculum_first(cur, word, current_absolute, focus_set, use_allowed, allowed_set) ==
  IF word \in focus_set THEN "focus"
  ELSE IF word \in always_safe THEN "always_safe"
  ELSE IF word \in DOMAIN cur
       THEN (LET pos == _parse_position(cur[word])
             IN  IF absolute_lesson(pos[1], pos[2]) <= current_absolute
                 THEN "known" ELSE "too_advanced")
  ELSE IF use_allowed
       THEN (IF word \in allowed_set THEN "allowed" ELSE "unknown")
  ELSE "unknown"

\* the cascade of the loop body of validate_reading_structured; use_allowed
\* is "allowed_set is not None"
reading_class(cur, word, current_absolute, focus_set, use_allowed, allowed_set) ==
  IF word \in focus_set THEN "focus"
  ELSE IF word \in always_safe THEN "always_safe"
  ELSE IF use_allowed
       THEN (IF word \in allowed_set THEN "allowed" ELSE "unknown")
  ELSE IF word \notin DOMAIN cur THEN "unknown"
  ELSE LET pos == _parse_position(cur[word])
       IN  IF absolute_lesson(pos[1], pos[2]) <= current_absolute
           THEN "known" ELSE "too_advanced"

\* the too_advanced list of validate_reading_structured
reading_too_advanced(cur, chinese_text, user_lesson_position, hsk_level, focus_words, allowed_words) ==
  LET IsAdvanced(w) ==
        reading_class(cur, w, absolute_lesson(hsk_level, user_lesson_position),
                      ToSet(focus_words), allowed_words # <<>>,
                      ToSet(allowed_words)) = "too_advanced"
  IN  SelectSeq(FilterWords(chinese_text), IsAdvanced)

\* list(set(too_advanced))[:10]: the set is listed in an unspecified order,
\* so any 10 of its members may be the ones kept
BanChoices(too_advanced) ==
  { B \in SUBSET ToSet(too_advanced) :
      Cardinality(B) = Min(10, Cardinality(ToSet(too_advanced))) }

NoSuggestions == [present |-> FALSE]

\* unknown_count = len(unknown_words): one per occurrence
reading_unknown_count_unique(unknown_words) == Cardinality(ToSet(unknown_words))

reading_unknown_count(unknown_words) == Len(unknown_words)

\* reading_is_empty testing the text before it is filtered
reading_is_empty_unfiltered(chinese_text, words) == chinese_text = <<>>

\* "if not words": nothing is left of the text after filtering
reading_is_empty(chinese_text, words) == words = <<>>

\* allowed_words = <<>> stands for both None and []: the code tests the list
\* for truth only.  ban is the member of BanChoices the run produces.
\* Ratios are in thousandths; a list(set(..)) result is given as the set.
validate_reading_structured(cur, chinese_text, user_lesson_position, hsk_level, focus_words, allowed_words, ban) ==
  LET focus_set == ToSet(focus_words)
      use_allowed == allowed_words # <<>>
      allowed_set == ToSet(allowed_words)
      words == FilterWords(chinese_text)
      current_absolute == absolute_lesson(hsk_level, user_lesson_position)
      Class(w) == reading_class(cur, w, current_absolute, focus_set,
                                use_allowed, allowed_set)
      IsFocus(w) == Class(w) = "focus"
      IsUnknown(w) == Class(w) \in {"unknown", "too_advanced"}
      focus_found == ToSet(SelectSeq(words, IsFocus))
      unknown_words == SelectSeq(words, IsUnknown)
      too_advanced == reading_too_advanced(cur, chinese_text, user_lesson_position,
                                           hsk_level, focus_words, allowed_words)
      total_words == Len(words)
      unknown_count == reading_unknown_count(unknown_words)
      too_hard == 100 * unknown_count > 25 * total_words
      too_easy == /\ 100 * unknown_count < 5 * total_words
                  /\ Cardinality(focus_found) < Len(focus_words)
      focus_missing == focus_set \ focus_found
      ok == ~ too_hard /\ Cardinality(focus_missing) = 0
  IN  IF reading_is_empty(chinese_text, words)
      THEN [ kind |-> "validate_reading",
             ok |-> FALSE,
             unknown_ratio |-> 1000,
             focus_words_found |-> {},
             focus_words_missing |-> focus_words,
             new_words_for_user |-> {},
             too_many_unknowns |-> {},
             too_hard |-> TRUE,
             too_easy |-> FALSE,
             suggestions |-> [ present |-> TRUE,
                               ban_tokens |-> {},
                               require_tokens |-> focus_words,
                               target_range |-> [ min_unknown_ratio |-> 100,
                                                  max_unknown_ratio |-> 200 ] ] ]
      ELSE [ kind |-> "validate_reading",
             ok |-> ok,
             unknown_ratio |-> IF total_words > 0
                               THEN py_round(unknown_count, total_words, 1000)
                               ELSE 0,
             focus_words_found |-> focus_found,
             focus_words_missing |-> focus_missing,
             new_words_for_user |-> ToSet(unknown_words) \ ToSet(too_advanced),
             too_many_unknowns |-> ToSet(too_advanced),
             too_hard |-> too_hard,
             too_easy |-> too_easy,
             suggestions |->
               IF ~ ok
               THEN [ present |-> TRUE,
                      ban_tokens |-> ban,
                      require_tokens |-> focus_missing,
                      target_range |-> [ min_unknown_ratio |-> 100,
                                         max_unknown_ratio |-> 200 ] ]
               ELSE NoSuggestions ]

\* _extract_chinese_words: text is the segment list of jieba.cut(text)
_extract_chinese_words(text) == FilterWords(text)

\* the exercise types validate_exercise_structure dispatches on
ExerciseTypes ==
  {"multiple_choice", "drag_sentence", "spot_error", "build_sentence", "read_comp"}

\* the errors validate_exercise_structure appends for exercises 1..n.  The
\* exercises of the model have a type outside ExerciseTypes, for which the
\* dispatch ends in the "Unknown exercise type" branch.
RECURSIVE structure_errors(_, _)
structure_errors(exercises, n) ==
  IF n = 0 THEN <<>>
  ELSE structure_errors(exercises, n - 1)
       \o (IF \E j \in 1..(n - 1) : exercises[j].id = exercises[n].id
           THEN <<[exercise_id |-> exercises[n].id, field |-> "id",
                   severity |-> "error"]>>
           ELSE <<>>)
       \o <<[exercise_id |-> exercises[n].id, field |-> "type",
             severity |-> "error"]>>

validate_exercise_structure(exercises, allowed_words) ==
  LET errors == structure_errors(exercises, Len(exercises))
  IN  [ kind |-> "validate_structure",
        ok |-> Len(errors) = 0,
        errors |-> errors,
        warnings |-> <<>>,
        fixable |-> {},
        must_regenerate |-> {exercises[i].id : i \in DOMAIN exercises} ]

\* _validate_item_pedagogy; max_unknown_ratio in hundredths, the ratio in
\* thousandths, an issue as (word, its lesson, the current lesson) or "ratio".
\* word_absolute: the absolute lesson of a curriculum word
word_absolute(cur, w) ==
  absolute_lesson(_parse_position(cur[w])[1], _parse_position(cur[w])[2])

\* the issues of an item: one per word beyond the current lesson, in text
\* order, then the ratio issue
item_issues(cur, late, unknown_count, total, current_absolute, max_unknown_ratio) ==
  [i \in DOMAIN late |->
     [ kind |-> "exceeds", word |-> late[i],
       lesson |-> word_absolute(cur, late[i]),
       current |-> current_absolute ]]
  \o (IF 100 * unknown_count > max_unknown_ratio * total
      THEN <<[kind |-> "ratio"]>> ELSE <<>>)

\* the dict _validate_item_pedagogy returns for a text that has words
item_result(item_id, total, focus_in_item, unknown_count, issues) ==
  [ id |-> item_id, ok |-> Len(issues) = 0,
    unknown_ratio |-> py_round(unknown_count, total, 1000),
    focus_word_tested |-> Take(focus_in_item, 1),
    focus_words_in_item |-> ToSet(focus_in_item),
    issues |-> issues ]

_validate_item_pedagogy(cur, item_id, chinese_text, current_absolute, focus_set, max_unknown_ratio) ==
  LET words == _extract_chinese_words(chinese_text)
      IsFocus(w) == w \in focus_set
      Outside(w) == /\ w \notin focus_set /\ w \notin always_safe
                    /\ w \notin DOMAIN cur
      Exceeds(w) == /\ w \notin focus_set /\ w \notin always_safe
                    /\ w \in DOMAIN cur
                    /\ word_absolute(cur, w) > current_absolute
      unknown_count == Len(SelectSeq(words, Outside)) + Len(SelectSeq(words, Exceeds))
  IN  IF words = <<>>
      THEN [ id |-> item_id, ok |-> TRUE, unknown_ratio |-> 0,
             focus_word_tested |-> <<>>, focus_words_in_item |-> {},
             issues |-> <<>> ]
      ELSE item_result(item_id, Len(words), SelectSeq(words, IsFocus),
                       unknown_count,
                       item_issues(cur, SelectSeq(words, Exceeds), unknown_count,
                                   Len(words), current_absolute,
                                   max_unknown_ratio))

\* the coverage part of validate_pedagogy's result
pedagogy_coverage(items, tested, focus_words) ==
  LET NotTested(fw) == fw \notin tested
  IN  [ focus_words_tested |-> tested,
        focus_words_untested |-> SelectSeq(focus_words, NotTested),
        times_tested |->
          [fw \in tested |->
             Cardinality({i \in DOMAIN items :
                            fw \in items[i].focus_words_in_item})] ]

pedagogy_result(items, coverage) ==
  [ kind |-> "validate_pedagogy",
    ok |-> /\ \A i \in DOMAIN items : items[i].ok
           /\ Len(coverage.focus_words_untested) = 0,
    items |-> items,
    coverage |-> coverage ]

pedagogy_items_result(items, focus_words) ==
  pedagogy_result(items,
    pedagogy_coverage(items,
      UNION {items[i].focus_words_in_item : i \in DOMAIN items}, focus_words))

\* validate_pedagogy: the reading, then one item per exercise.  An exercise
\* of a type outside ExerciseTypes contributes no Chinese text.
validate_pedagogy(cur, reading_chinese, exercises, user_lesson_position, hsk_level, focus_words) ==
  pedagogy_items_result(
    <<_validate_item_pedagogy(cur, "reading", reading_chinese,
                              absolute_lesson(hsk_level, user_lesson_position),
                              ToSet(focus_words), 25)>>
    \o [i \in DOMAIN exercises |->
          _validate_item_pedagogy(cur, exercises[i].id, <<>>,
                                  absolute_lesson(hsk_level, user_lesson_position),
                                  ToSet(focus_words), 30)],
    focus_words)

\* the loop of get_vocabulary: a position counts when it splits into exactly
\* two parts that int() accepts
get_vocabulary_words(cur, max_lesson) ==
  LET Parts(w) == str_split(str_remove(cur[w], <<"h", "s", "k">>), <<"-", "l">>)
  IN  { w \in DOMAIN cur :
          /\ Len(Parts(w)) = 2
          /\ int_ok(Parts(w)[1]) /\ int_ok(Parts(w)[2])
          /\ absolute_lesson(int_val(Parts(w)[1]), int_val(Parts(w)[2]))
               <= max_lesson }

\* the body of segment_text behind its guard; texts is a list of segment lists
segment_words(cur, texts) ==
  LET words(i) == _extract_chinese_words(texts[i])
      all_words == UNION {ToSet(words(i)) : i \in DOMAIN texts}
      words_filtered == all_words \ always_safe
  IN  [ kind |-> "segment",
        segments |-> [i \in DOMAIN texts |-> [text |-> texts[i], words |-> words(i)]],
        all_words |-> all_words,
        words_filtered |-> words_filtered,
        always_safe_removed |-> all_words \cap always_safe,
        curriculum_words |-> words_filtered \cap DOMAIN cur,
        unknown_words |-> words_filtered \ DOMAIN cur ]

\* --------------------------------------------------------- ContentRecommender
\* app/models.py: TierName in declaration order, TIER_CONFIG in hundredths
TierName == <<"comfort", "challenge", "stretch">>

TIER_CONFIG ==
  [ comfort   |-> [min |-> 95, max |-> 100, label |-> "Comfort Zone"],
    challenge |-> [min |-> 85, max |-> 95, label |-> "Sweet Spot"],
    stretch   |-> [min |-> 75, max |-> 85, label |-> "Stretch Goal"] ]

\* ContentRecommender._is_punctuation: the validator's set and "\r"
rec_is_punctuation(char) ==
  \A i \in DOMAIN char : char[i] \in punctuation \cup {"\\r"}

\* dict.get(key): <<value>>, or <<>> for None
DictGet(d, key) == IF key \in DOMAIN d THEN <<d[key]>> ELSE <<>>

\* _tokenize_content: text is the segment list of jieba.cut(text)
_tokenize_content(vocab_by_hanzi, text) ==
  LET NotPunct(seg) == ~ rec_is_punctuation(seg)
      segments == SelectSeq(text, NotPunct)
  IN  [ i \in 1..Len(segments) |->
          [ wordId |-> DictGet(vocab_by_hanzi, segments[i]),
            hanzi |-> segments[i] ] ]

\* _build_cumulative_words: known_so_far after the first i lessons
RECURSIVE known_so_far(_, _, _)
known_so_far(lesson_order, lesson_word_map, i) ==
  IF i = 0 THEN {}
  ELSE known_so_far(lesson_order, lesson_word_map, i - 1)
       \cup (IF lesson_order[i] \in DOMAIN lesson_word_map
             THEN ToSet(lesson_word_map[lesson_order[i]]) ELSE {})

\* _build_cumulative_words without the running union: each lesson's own words
_build_cumulative_words_own(lesson_order, lesson_word_map) ==
  [ lesson_id \in ToSet(lesson_order) |->
      IF lesson_id \in DOMAIN lesson_word_map
      THEN ToSet(lesson_word_map[lesson_id]) ELSE {} ]

\* a later occurrence of a lesson id in lesson_order overwrites the entry
_build_cumulative_words(lesson_order, lesson_word_map) ==
  [ lesson_id \in ToSet(lesson_order) |->
      LET last == CHOOSE i \in DOMAIN lesson_order :
                    /\ lesson_order[i] = lesson_id
                    /\ \A j \in DOMAIN lesson_order :
                         lesson_order[j] = lesson_id => j <= i
      IN  known_so_far(lesson_order, lesson_word_map, last) ]

\* unique unknown words in first-occurrence order
RECURSIVE unique_unknown(_, _, _)
unique_unknown(tokens, known_word_ids, unknown_ids) ==
  IF tokens = <<>> THEN <<>>
  ELSE LET t == Head(tokens)
       IN  IF t.wordId[1] \notin known_word_ids /\ t.wordId[1] \notin unknown_ids
           THEN <<[wordId |-> t.wordId[1], hanzi |-> t.hanzi]>>
                \o unique_unknown(Tail(tokens), known_word_ids,
                                  unknown_ids \cup {t.wordId[1]})
           ELSE unique_unknown(Tail(tokens), known_word_ids, unknown_ids)

\* _calculate_comprehension with the membership test of known_count inverted
_calculate_comprehension_inverted(tokens, known_word_ids) ==
  LET HasId(t) == t.wordId # <<>>
      curriculum_tokens == SelectSeq(tokens, HasId)
      Known(t) == t.wordId[1] \notin known_word_ids
      known_count == Len(SelectSeq(curriculum_tokens, Known))
      unknown_words == unique_unknown(curriculum_tokens, known_word_ids, {})
  IN  IF curriculum_tokens = <<>>
      THEN [ comprehension |-> [num |-> 1, den |-> 1],
             unknown_words |-> <<>>, unknown_count |-> 0 ]
      ELSE [ comprehension |-> [num |-> known_count, den |-> Len(curriculum_tokens)],
             unknown_words |-> unknown_words,
             unknown_count |-> Len(unknown_words) ]

\* _calculate_comprehension counting each distinct word once
_calculate_comprehension_unique(tokens, known_word_ids) ==
  LET HasId(t) == t.wordId # <<>>
      curriculum_tokens == SelectSeq(tokens, HasId)
      ids == {curriculum_tokens[i].wordId[1] : i \in DOMAIN curriculum_tokens}
      unknown_words == unique_unknown(curriculum_tokens, known_word_ids, {})
  IN  IF curriculum_tokens = <<>>
      THEN [ comprehension |-> [num |-> 1, den |-> 1],
             unknown_words |-> <<>>, unknown_count |-> 0 ]
      ELSE [ comprehension |-> [num |-> Cardinality(ids \cap known_word_ids),
                                den |-> Cardinality(ids)],
             unknown_words |-> unknown_words,
             unknown_count |-> Len(unknown_words) ]

\* _calculate_comprehension: comprehension is the fraction num/den
_calculate_comprehension(tokens, known_word_ids) ==
  LET HasId(t) == t.wordId # <<>>
      curriculum_tokens == SelectSeq(tokens, HasId)
      Known(t) == t.wordId[1] \in known_word_ids
      known_count == Len(SelectSeq(curriculum_tokens, Known))
      unknown_words == unique_unknown(curriculum_tokens, known_word_ids, {})
  IN  IF curriculum_tokens = <<>>
      THEN [ comprehension |-> [num |-> 1, den |-> 1],
             unknown_words |-> <<>>, unknown_count |-> 0 ]
      ELSE [ comprehension |-> [num |-> known_count, den |-> Len(curriculum_tokens)],
             unknown_words |-> unknown_words,
             unknown_count |-> Len(unknown_words) ]

\* get_known_words_for_lesson answering every word for a lesson it does not know
get_known_words_for_lesson_all(r, lesson_id) ==
  IF lesson_id \in DOMAIN r.cumulative_words
  THEN r.cumulative_words[lesson_id] ELSE DOMAIN r.vocab_by_id

get_known_words_for_lesson(r, lesson_id) ==
  IF lesson_id \in DOMAIN r.cumulative_words
  THEN r.cumulative_words[lesson_id] ELSE {}

\* a < b for fractions with positive denominators
FracLess(a, b) == a.num * b.den < b.num * a.den

\* hundredths h <= fraction c, fraction c < hundredths h
HundredthsLeq(h, c) == h * c.den <= 100 * c.num
LessHundredths(c, h) == 100 * c.num < h * c.den

\* insert_desc that puts x ahead of the elements equal to it
RECURSIVE insert_desc_ahead(_, _)
insert_desc_ahead(sorted, x) ==
  IF sorted = <<>> THEN <<x>>
  ELSE IF ~ FracLess(x.comprehension, Head(sorted).comprehension)
       THEN <<x>> \o sorted
       ELSE <<Head(sorted)>> \o insert_desc_ahead(Tail(sorted), x)

\* list.sort(key=lambda x: -x["comprehension"]): stable, descending;
\* x goes behind every element that is not smaller than x
RECURSIVE insert_desc(_, _)
insert_desc(sorted, x) ==
  IF sorted = <<>> THEN <<x>>
  ELSE IF FracLess(Head(sorted).comprehension, x.comprehension)
       THEN <<x>> \o sorted
       ELSE <<Head(sorted)>> \o insert_desc(Tail(sorted), x)

RECURSIVE sort_desc(_)
sort_desc(s) ==
  IF s = <<>> THEN <<>>
  ELSE insert_desc(sort_desc(SubSeq(s, 1, Len(s) - 1)), s[Len(s)])

\* the entry of all_content for one story or audiobook
scored(item, type, known_word_ids) ==
  LET c == _calculate_comprehension(item.tokens, known_word_ids)
  IN  [ type |-> type, id |-> item.id, title |-> item.title,
        hskLevel |-> item.hskLevel,
        comprehension |-> c.comprehension,
        totalTokens |-> item.totalTokens,
        unknownWords |-> Take(c.unknown_words, 5),
        unknownCount |-> c.unknown_count ]

\* all_content of recommend, before the sort
gather_content(r, known_word_ids, content_type) ==
  (IF content_type \in {"story", "all"}
   THEN [i \in DOMAIN r.stories |-> scored(r.stories[i], "story", known_word_ids)]
   ELSE <<>>)
  \o
  (IF content_type \in {"audiobook", "all"}
   THEN [i \in DOMAIN r.audiobooks |->
           scored(r.audiobooks[i], "audiobook", known_word_ids)]
   ELSE <<>>)

\* config["min"] <= c["comprehension"] < config["max"]
in_tier(config, c) ==
  /\ HundredthsLeq(config.min, c.comprehension)
  /\ LessHundredths(c.comprehension, config.max)

\* ContentItem(...): comprehension rounded to thousandths
ContentItem(c) ==
  [ type |-> c.type, id |-> c.id, title |-> c.title, hskLevel |-> c.hskLevel,
    comprehension |-> py_round(c.comprehension.num, c.comprehension.den, 1000),
    totalTokens |-> c.totalTokens,
    unknownWords |-> c.unknownWords, unknownCount |-> c.unknownCount ]

tier_items(all_content, config, items_per_tier) ==
  LET InTier(c) == in_tier(config, c)
      picked == SelectSeq(all_content, InTier)
  IN  Take([i \in DOMAIN picked |-> ContentItem(picked[i])], items_per_tier)

\* recommend, without the generatedAt timestamp
recommend(r, lesson_id, content_type, items_per_tier) ==
  LET known_word_ids == get_known_words_for_lesson(r, lesson_id)
      all_content == sort_desc(gather_content(r, known_word_ids, content_type))
      IsExcluded(c) == LessHundredths(c.comprehension, 75)
  IN  [ kind |-> "recommend",
        lessonId |-> lesson_id,
        knownWordCount |-> Cardinality(known_word_ids),
        contentType |-> content_type,
        tiers |-> [ tier_name \in ToSet(TierName) |->
                      [ label |-> TIER_CONFIG[tier_name].label,
                        range |-> <<TIER_CONFIG[tier_name].min,
                                    TIER_CONFIG[tier_name].max>>,
                        items |-> tier_items(all_content, TIER_CONFIG[tier_name],
                                             items_per_tier) ] ],
        excludedCount |-> Len(SelectSeq(all_content, IsExcluded)) ]

\* the token lists of the stories / audiobooks of a content file
tokenized(vocab_by_hanzi, items, type) ==
  [ i \in DOMAIN items |->
      LET toks == IF items[i].fullText = <<>> THEN <<>>
                  ELSE _tokenize_content(vocab_by_hanzi, items[i].fullText)
      IN  [ id |-> items[i].id, title |-> items[i].title,
            hskLevel |-> items[i].hskLevel, tokens |-> toks,
            totalTokens |-> Len(toks), type |-> type ] ]

\* the vocabulary entries of a file, as maps; a later entry overwrites
VocabById(vocabulary) ==
  [ id \in {vocabulary[i].id : i \in DOMAIN vocabulary} |->
      vocabulary[CHOOSE i \in DOMAIN vocabulary :
                   /\ vocabulary[i].id = id
                   /\ \A j \in DOMAIN vocabulary : vocabulary[j].id = id => j <= i] ]

VocabByHanzi(vocabulary) ==
  [ h \in {vocabulary[i].hanzi : i \in DOMAIN vocabulary} |->
      vocabulary[CHOOSE i \in DOMAIN vocabulary :
                   /\ vocabulary[i].hanzi = h
                   /\ \A j \in DOMAIN vocabulary : vocabulary[j].hanzi = h => j <= i].id ]

\* load_content with the stories and audiobooks appended to those already held
load_content_append(r, data) ==
  LET vocab_by_id == VocabById(data.vocabulary) @@ r.vocab_by_id
      vocab_by_hanzi == VocabByHanzi(data.vocabulary) @@ r.vocab_by_hanzi
      HasTranscript(ab) == ab.fullText # <<>>
  IN  [ loaded |-> TRUE,
        vocab_by_id |-> vocab_by_id,
        vocab_by_hanzi |-> vocab_by_hanzi,
        lesson_order |-> data.lessonOrder,
        lesson_word_map |-> data.lessonWordMap,
        cumulative_words |-> _build_cumulative_words(data.lessonOrder,
                                                     data.lessonWordMap),
        stories |-> r.stories \o tokenized(vocab_by_hanzi, data.stories, "story"),
        audiobooks |-> r.audiobooks
                       \o tokenized(vocab_by_hanzi,
                                    SelectSeq(data.audiobooks, HasTranscript),
                                    "audiobook"),
        version |-> data.version ]

\* ContentRecommender.load on an existing data/content.json: the vocabulary
\* maps are updated entry by entry, everything else is replaced
load_content(r, data) ==
  LET vocab_by_id == VocabById(data.vocabulary) @@ r.vocab_by_id
      vocab_by_hanzi == VocabByHanzi(data.vocabulary) @@ r.vocab_by_hanzi
      HasTranscript(ab) == ab.fullText # <<>>
  IN  [ loaded |-> TRUE,
        vocab_by_id |-> vocab_by_id,
        vocab_by_hanzi |-> vocab_by_hanzi,
        lesson_order |-> data.lessonOrder,
        lesson_word_map |-> data.lessonWordMap,
        cumulative_words |-> _build_cumulative_words(data.lessonOrder,
                                                     data.lessonWordMap),
        stories |-> tokenized(vocab_by_hanzi, data.stories, "story"),
        audiobooks |-> tokenized(vocab_by_hanzi,
                                 SelectSeq(data.audiobooks, HasTranscript),
                                 "audiobook"),
        version |-> data.version ]

\* a content.json whose story number n came without its "fullText"
WithoutFullText(data, n) ==
  [ data EXCEPT !.stories[n] = [ id |-> @.id, title |-> @.title,
                                 hskLevel |-> @.hskLevel ] ]

\* the content files of the runs that follow the service as a whole: stories
\* of two of the texts, audiobooks with a transcript
ServiceFullTexts == {FullTexts[1], FullTexts[5]}

ServiceContentFiles ==
  { d \in ContentFiles :
      /\ \A i \in DOMAIN d.stories : d.stories[i].fullText \in ServiceFullTexts
      /\ \A i \in DOMAIN d.audiobooks : d.audiobooks[i].fullText = FullTexts[2] }

BrokenContentFiles ==
  { WithoutFullText(data, Len(data.stories)) :
      data \in {d \in ServiceContentFiles : d.stories # <<>>} }

\* the first story that has no "fullText"
first_bad_story(data) ==
  CHOOSE n \in DOMAIN data.stories :
    /\ "fullText" \notin DOMAIN data.stories[n]
    /\ \A m \in 1..(n - 1) : "fullText" \in DOMAIN data.stories[m]

\* ContentRecommender.load on a file of BrokenContentFiles: story["fullText"]
\* raises KeyError; what was assigned before it stays assigned, audiobooks,
\* version and loaded keep their former values
load_content_raises(r, data) ==
  LET vocab_by_id == VocabById(data.vocabulary) @@ r.vocab_by_id
      vocab_by_hanzi == VocabByHanzi(data.vocabulary) @@ r.vocab_by_hanzi
      n == first_bad_story(data)
  IN  [ r EXCEPT !.vocab_by_id = vocab_by_id,
                 !.vocab_by_hanzi = vocab_by_hanzi,
                 !.lesson_order = data.lessonOrder,
                 !.lesson_word_map = data.lessonWordMap,
                 !.cumulative_words = _build_cumulative_words(data.lessonOrder,
                                                              data.lessonWordMap),
                 !.stories = tokenized(vocab_by_hanzi,
                                       SubSeq(data.stories, 1, n - 1), "story") ]

\* load_curriculum without the jieba.add_word loop
load_curriculum_unregistered(jd, file) ==
  [ curriculum |-> file.words,
    version |-> file.version,
    loaded |-> TRUE,
    jieba_dict |-> jd ]

\* VocabValidator.load on existing cache files: the fields it assigns and the
\* words registered with jieba (jd: the words registered before)
load_curriculum(jd, file) ==
  [ curriculum |-> file.words,
    version |-> file.version,
    loaded |-> TRUE,
    jieba_dict |-> jd \cup DOMAIN file.words ]

\* VocabValidator.load / reload: the cache files are read, the words are
\* registered with jieba
LoadCurriculum ==
  /\ Idle
  /\ \E file \in CurriculumFiles :
       /\ curriculum' = load_curriculum(jieba_dict, file).curriculum
       /\ version' = load_curriculum(jieba_dict, file).version
       /\ loaded' = load_curriculum(jieba_dict, file).loaded
       /\ jieba_dict' = load_curriculum(jieba_dict, file).jieba_dict
       /\ curriculum_file' = file
  /\ UNCHANGED <<rec, content_file, request, response>>

\* POST /validate.  An endpoint refuses with 503 before it looks at the
\* request body when the snapshot is not loaded.
ValidateText ==
  /\ Idle
  /\ IF ~ loaded
     THEN /\ request' = [op |-> "validate"]
          /\ response' = NotReady
     ELSE \E text \in Texts, user_hsk \in 1..MaxHsk, user_lesson \in 1..MaxLesson,
             target_words \in FocusLists :
            /\ request' = [ op |-> "validate", text |-> text,
                            user_hsk |-> user_hsk, user_lesson |-> user_lesson,
                            target_words |-> target_words ]
            /\ response' = validate(curriculum, text, user_hsk, user_lesson,
                                    target_words)
  /\ UNCHANGED <<curriculum, version, loaded, jieba_dict, rec, curriculum_file,
                 content_file>>

\* POST /validate-lesson
ValidateLesson ==
  /\ Idle
  /\ IF ~ loaded
     THEN /\ request' = [op |-> "validate_lesson"]
          /\ response' = NotReady
     ELSE \E text \in Texts, lesson_number \in 1..MaxLesson,
             hsk_level \in 1..MaxHsk, focus_words \in FocusLists :
            /\ request' = [ op |-> "validate_lesson", text |-> text,
                            lesson_number |-> lesson_number,
                            hsk_level |-> hsk_level, focus_words |-> focus_words ]
            /\ response' = validate_lesson(curriculum, text, lesson_number,
                                           focus_words, hsk_level)
  /\ UNCHANGED <<curriculum, version, loaded, jieba_dict, rec, curriculum_file,
                 content_file>>

\* POST /validate/reading
ValidateReading ==
  /\ Idle
  /\ IF ~ loaded
     THEN /\ request' = [op |-> "validate_reading"]
          /\ response' = NotReady
     ELSE \E text \in Texts, user_lesson_position \in 1..MaxLesson,
             hsk_level \in 1..MaxHsk, focus_words \in FocusLists,
             allowed_words \in AllowedLists :
            /\ request' = [ op |-> "validate_reading", text |-> text,
                            user_lesson_position |-> user_lesson_position,
                            hsk_level |-> hsk_level, focus_words |-> focus_words,
                            allowed_words |-> allowed_words ]
            /\ \E ban \in BanChoices(reading_too_advanced(curriculum, text,
                            user_lesson_position, hsk_level, focus_words,
                            allowed_words)) :
                 response' = validate_reading_structured(curriculum, text,
                               user_lesson_position, hsk_level, focus_words,
                               allowed_words, ban)
  /\ UNCHANGED <<curriculum, version, loaded, jieba_dict, rec, curriculum_file,
                 content_file>>

\* ContentRecommender.load / reload; without a cache file load returns at once
LoadContentFrom(files) ==
  /\ Idle
  /\ \E cached \in BOOLEAN, data \in files :
       IF cached
       THEN /\ rec' = load_content(rec, data)
            /\ jieba_dict' = jieba_dict
                 \cup {data.vocabulary[i].hanzi : i \in DOMAIN data.vocabulary}
            /\ content_file' = data
       ELSE UNCHANGED <<rec, jieba_dict, content_file>>
  /\ UNCHANGED <<curriculum, version, loaded, curriculum_file, request, response>>

LoadContent == LoadContentFrom(ContentFiles)

\* load / reload while the service runs
LoadServiceContent == LoadContentFrom(ServiceContentFiles)

\* load / reload on a content.json of BrokenContentFiles (startup logs the
\* exception, /sync/full answers 500)
LoadContentRaises ==
  /\ Idle
  /\ \E data \in BrokenContentFiles :
       /\ rec' = load_content_raises(rec, data)
       /\ jieba_dict' = jieba_dict
            \cup {data.vocabulary[i].hanzi : i \in DOMAIN data.vocabulary}
       /\ content_file' = data
  /\ UNCHANGED <<curriculum, version, loaded, curriculum_file, request, response>>

\* POST /recommend
Recommend ==
  /\ Idle
  /\ IF ~ rec.loaded
     THEN /\ request' = [op |-> "recommend"]
          /\ response' = NotReady
     ELSE \E lesson_id \in LessonIds, content_type \in ContentTypes,
             items_per_tier \in 0..MaxCap :
            /\ request' = [ op |-> "recommend", lesson_id |-> lesson_id,
                            content_type |-> content_type,
                            items_per_tier |-> items_per_tier ]
            /\ response' = recommend(rec, lesson_id, content_type, items_per_tier)
  /\ UNCHANGED <<curriculum, version, loaded, jieba_dict, rec, curriculum_file,
                 content_file>>

\* the response leaves the service
Respond ==
  /\ ~ Idle /\ response.kind # "lifespan"
  /\ request' = NoRequest
  /\ response' = NoResponse
  /\ UNCHANGED <<curriculum, version, loaded, jieba_dict, rec, curriculum_file,
                 content_file>>

\* ------------------------------------------------- the service's entry points
\* the word maps POST /seed-test-curriculum is called with
\* eleven words taught at eleven lessons after hsk1-l1, the i-th at absolute
\* lesson i + 1
LateSyllables == <<"yi", "er", "san", "si", "wu", "liu", "qi", "ba", "jiu", "shi", "bai">>
LateWords == [i \in 1..11 |-> <<"di", LateSyllables[i]>>]
LatePositions ==
  [ w \in ToSet(LateWords) |->
      LET i == CHOOSE k \in 1..11 : LateWords[k] = w
      IN  IF i <= 8 THEN PosStr(1, i + 1) ELSE PosStr(2, i - 8) ]

SeedWords ==
  { [w \in {} |-> <<>>],
    (W_xuexi :> PosStr(1, 1)) @@ (W_keneng :> PosStr(1, 2)),
    LatePositions }

\* POST /seed-test-curriculum: the map goes into the validator's memory
SeedTestCurriculum ==
  /\ Idle
  /\ \E words \in SeedWords :
       /\ curriculum' = words
       /\ jieba_dict' = jieba_dict \cup DOMAIN words
       /\ request' = [op |-> "seed", words |-> words]
       /\ response' = [ kind |-> "seed", success |-> TRUE,
                        word_count |-> Cardinality(DOMAIN words),
                        version |-> "test-seed" ]
  /\ version' = "test-seed"
  /\ loaded' = TRUE
  /\ UNCHANGED <<rec, curriculum_file, content_file>>

\* the handlers of main.py: ld is validator.loaded (recommender.loaded for
\* /recommend), cur is validator.curriculum, req the request body
post_validate(ld, cur, req) ==
  IF ~ ld THEN NotReady
  ELSE validate(cur, req.text, req.user_hsk, req.user_lesson, req.target_words)

post_validate_lesson(ld, cur, req) ==
  IF ~ ld THEN NotReady
  ELSE validate_lesson(cur, req.text, req.lesson_number, req.focus_words,
                       req.hsk_level)

post_validate_reading(ld, cur, req, ban) ==
  IF ~ ld THEN NotReady
  ELSE validate_reading_structured(cur, req.text, req.user_lesson_position,
                                   req.hsk_level, req.focus_words,
                                   req.allowed_words, ban)

post_validate_structure(ld, cur, req) ==
  IF ~ ld THEN NotReady
  ELSE validate_exercise_structure(req.exercises, req.allowed_words)

post_validate_pedagogy(ld, cur, req) ==
  IF ~ ld THEN NotReady
  ELSE validate_pedagogy(cur, req.text, req.exercises,
                         req.user_lesson_position, req.hsk_level,
                         req.focus_words)

post_segment(ld, cur, req) ==
  IF ~ ld THEN NotReady
  ELSE segment_words(cur, req.texts)

get_vocabulary(ld, cur, req) ==
  IF ~ ld THEN NotReady
  ELSE [ kind |-> "get_vocabulary",
         words |-> get_vocabulary_words(cur, req.max_lesson),
         count |-> Cardinality(get_vocabulary_words(cur, req.max_lesson)),
         max_lesson |-> req.max_lesson ]

post_recommend(r, req) ==
  IF ~ r.loaded THEN NotReady
  ELSE recommend(r, req.lesson_id, req.content_type, req.items_per_tier)

\* one request body per entry point, for the runs that follow the service
\* through loads, reloads and seeding
ServiceText == <<W_wo, W_xuexi, W_nihao>>
ServiceExercises == <<[id |-> "ex-1", type |-> "essay"]>>

ServiceRequests ==
  { [ op |-> "validate", text |-> ServiceText, user_hsk |-> 1,
      user_lesson |-> 1, target_words |-> <<>> ],
    [ op |-> "validate_lesson", text |-> ServiceText, lesson_number |-> 1,
      hsk_level |-> 1, focus_words |-> <<W_xuexi>> ],
    [ op |-> "validate_reading", text |-> ServiceText,
      user_lesson_position |-> 1, hsk_level |-> 1,
      focus_words |-> <<W_xuexi>>, allowed_words |-> <<>> ],
    [ op |-> "validate_reading", text |-> LateWords,
      user_lesson_position |-> 1, hsk_level |-> 1,
      focus_words |-> <<W_xuexi>>, allowed_words |-> <<>> ],
    [ op |-> "validate_structure", exercises |-> ServiceExercises,
      allowed_words |-> <<W_nihao>> ],
    [ op |-> "validate_pedagogy", text |-> ServiceText,
      exercises |-> ServiceExercises, user_lesson_position |-> 1,
      hsk_level |-> 1, focus_words |-> <<W_xuexi>> ],
    [ op |-> "get_vocabulary", max_lesson |-> 1 ],
    [ op |-> "segment", texts |-> <<ServiceText>> ],
    [ op |-> "recommend", lesson_id |-> "lesson-2", content_type |-> "all",
      items_per_tier |-> 1 ] }

RequestsOf(op) == {req \in ServiceRequests : req.op = op}

\* the responses an entry point can give to req with the validator fields
\* (ld, cur) and the recommender r
ServiceResponses(ld, cur, r, req) ==
  CASE req.op = "validate" -> {post_validate(ld, cur, req)}
    [] req.op = "validate_lesson" -> {post_validate_lesson(ld, cur, req)}
    [] req.op = "validate_reading" ->
         { post_validate_reading(ld, cur, req, ban) :
             ban \in BanChoices(reading_too_advanced(cur, req.text,
                       req.user_lesson_position, req.hsk_level,
                       req.focus_words, req.allowed_words)) }
    [] req.op = "validate_structure" -> {post_validate_structure(ld, cur, req)}
    [] req.op = "validate_pedagogy" -> {post_validate_pedagogy(ld, cur, req)}
    [] req.op = "get_vocabulary" -> {get_vocabulary(ld, cur, req)}
    [] req.op = "segment" -> {post_segment(ld, cur, req)}
    [] req.op = "recommend" -> {post_recommend(r, req)}

CallValidate ==
  /\ Idle
  /\ \E req \in RequestsOf("validate") :
       /\ request' = req
       /\ response' = post_validate(loaded, curriculum, req)
  /\ UNCHANGED <<curriculum, version, loaded, jieba_dict, rec, curriculum_file,
                 content_file>>

CallValidateLesson ==
  /\ Idle
  /\ \E req \in RequestsOf("validate_lesson") :
       /\ request' = req
       /\ response' = post_validate_lesson(loaded, curriculum, req)
  /\ UNCHANGED <<curriculum, version, loaded, jieba_dict, rec, curriculum_file,
                 content_file>>

CallValidateReading ==
  /\ Idle
  /\ \E req \in RequestsOf("validate_reading") :
       /\ request' = req
       /\ \E ban \in BanChoices(reading_too_advanced(curriculum, req.text,
                       req.user_lesson_position, req.hsk_level,
                       req.focus_words, req.allowed_words)) :
            response' = post_validate_reading(loaded, curriculum, req, ban)
  /\ UNCHANGED <<curriculum, version, loaded, jieba_dict, rec, curriculum_file,
                 content_file>>

CallValidateStructure ==
  /\ Idle
  /\ \E req \in RequestsOf("validate_structure") :
       /\ request' = req
       /\ response' = post_validate_structure(loaded, curriculum, req)
  /\ UNCHANGED <<curriculum, version, loaded, jieba_dict, rec, curriculum_file,
                 content_file>>

CallValidatePedagogy ==
  /\ Idle
  /\ \E req \in RequestsOf("validate_pedagogy") :
       /\ request' = req
       /\ response' = post_validate_pedagogy(loaded, curriculum, req)
  /\ UNCHANGED <<curriculum, version, loaded, jieba_dict, rec, curriculum_file,
                 content_file>>

CallGetVocabulary ==
  /\ Idle
  /\ \E req \in RequestsOf("get_vocabulary") :
       /\ request' = req
       /\ response' = get_vocabulary(loaded, curriculum, req)
  /\ UNCHANGED <<curriculum, version, loaded, jieba_dict, rec, curriculum_file,
                 content_file>>

CallSegment ==
  /\ Idle
  /\ \E req \in RequestsOf("segment") :
       /\ request' = req
       /\ response' = post_segment(loaded, curriculum, req)
  /\ UNCHANGED <<curriculum, version, loaded, jieba_dict, rec, curriculum_file,
                 content_file>>

CallRecommend ==
  /\ Idle
  /\ \E req \in RequestsOf("recommend") :
       /\ request' = req
       /\ response' = post_recommend(rec, req)
  /\ UNCHANGED <<curriculum, version, loaded, jieba_dict, rec, curriculum_file,
                 content_file>>

\* the service as a whole: loads, reloads and seeding in any order, each entry
\* point called with its request of ServiceRequests
NextService ==
  \/ LoadCurriculum
  \/ SeedTestCurriculum
  \/ LoadServiceContent
  \/ LoadContentRaises
  \/ CallValidate
  \/ CallValidateLesson
  \/ CallValidateReading
  \/ CallValidateStructure
  \/ CallValidatePedagogy
  \/ CallGetVocabulary
  \/ CallSegment
  \/ CallRecommend
  \/ Respond

SpecService == Init /\ [][NextService]_vars

\* ------------------------------------------------- position strings as inputs
\* position strings put together from a prefix, a level part, a delimiter, a
\* lesson part and a tail: well-formed ones and malformed ones of every kind
PositionPrefixes == { <<"h", "s", "k">>, <<>> }
PositionLevels == { <<"1">>, <<"2">>, <<"1", "0">>, <<"x">>, <<>> }
PositionDelims == { <<"-", "l">>, <<"-">>, <<>> }
PositionLessons == { <<"3">>, <<"1", "2">>, <<"y">>, <<>> }
PositionTails == { <<>>, <<"-", "l">>, <<"-", "l", "4">>, <<"-", "l", "z">>, <<"-", "4">> }

PositionStrings ==
  { p \o h \o d \o l \o t : p \in PositionPrefixes, h \in PositionLevels,
                            d \in PositionDelims, l \in PositionLessons,
                            t \in PositionTails }

\* a call of VocabValidator._parse_position
ParsePosition ==
  /\ Idle
  /\ \E position_str \in PositionStrings :
       /\ request' = [op |-> "_parse_position", position_str |-> position_str]
       /\ response' = [ kind |-> "_parse_position",
                        position |-> _parse_position(position_str) ]
  /\ UNCHANGED <<curriculum, version, loaded, jieba_dict, rec, curriculum_file,
                 content_file>>

\* the lessons a caller may be at, within a level of ten lessons and beyond
CallerLessons == 1..MaxLesson \cup {10, 12}

\* one word of the curriculum at position string word_pos, looked at by free
\* validation (_is_word_safe: the pair comparison) and by strict validation
\* (validate_lesson: the absolute-lesson comparison) for the same caller
ComparePositions ==
  /\ Idle
  /\ \E word_pos \in PositionStrings, user_hsk \in 1..MaxHsk,
        user_lesson \in CallerLessons :
       LET cur == (W_keneng :> word_pos)
           pos == _parse_position(word_pos)
       IN  /\ request' = [ op |-> "compare", word_pos |-> word_pos,
                           user_hsk |-> user_hsk, user_lesson |-> user_lesson ]
           /\ response' =
                [ kind |-> "compare",
                  position |-> pos,
                  free_safe |-> _is_word_safe(cur, W_keneng, user_hsk, user_lesson),
                  word_absolute_lesson |-> absolute_lesson(pos[1], pos[2]),
                  current_absolute_lesson |-> absolute_lesson(user_hsk, user_lesson),
                  strict_class |-> lesson_class(cur, W_keneng,
                                                absolute_lesson(user_hsk, user_lesson),
                                                {}) ]
  /\ UNCHANGED <<curriculum, version, loaded, jieba_dict, rec, curriculum_file,
                 content_file>>

NextPosition ==
  \/ ParsePosition
  \/ ComparePositions
  \/ Respond

SpecPosition == Init /\ [][NextPosition]_vars

\* ------------------------------------------------------ the curriculum sync
\* stop_after_attempt(3) of the retry decorators
StopAfterAttempt == 3

\* dict.get(key, default)
dict_get(d, key, default) == IF key \in DOMAIN d THEN d[key] ELSE default

\* the answers of GET /v1/curriculum/version: unchanged, changed, and one
\* without a "changed" key
BackendVersionInfos ==
  { [changed |-> FALSE, version |-> "test-v1", wordCount |-> 4, lessonCount |-> 4],
    [changed |-> TRUE, version |-> "test-v2", wordCount |-> 2, lessonCount |-> 2],
    [version |-> "test-v2"] }

\* the answers of GET /v1/curriculum/export
BackendExports ==
  { [words |-> f.words, version |-> f.version, lessonCount |-> 2] :
      f \in CurriculumFiles }

\* what the backend does during one sync: the number of requests for the
\* version and for the export that end in an httpx error before one is
\* answered, and the answers
Backends ==
  [ version_failures : 0..StopAfterAttempt,
    version_info : BackendVersionInfos,
    export_failures : 0..StopAfterAttempt,
    export : BackendExports ]

\* a call under @retry: the attempts made, and whether the last one raised
retry_attempts(failures) == Min(failures + 1, StopAfterAttempt)
retry_raises(failures) == failures >= StopAfterAttempt

\* the calls of one retried function
retry_calls(name, failures) == [i \in 1..retry_attempts(failures) |-> name]

\* the except branch of CurriculumSync.sync
SyncFailed ==
  [ success |-> FALSE, version |-> "", word_count |-> 0, lesson_count |-> 0,
    changed |-> FALSE ]

\* CurriculumSync.sync that downloads whatever the version check says
sync_always_downloads(backend) ==
  LET checks == retry_calls("check_version", backend.version_failures)
      fetches == retry_calls("fetch_curriculum", backend.export_failures)
  IN  IF retry_raises(backend.version_failures)
      THEN [result |-> SyncFailed, steps |-> checks, written |-> FALSE]
      ELSE IF retry_raises(backend.export_failures)
      THEN [result |-> SyncFailed, steps |-> checks \o fetches, written |-> FALSE]
      ELSE [ result |->
               [ success |-> TRUE,
                 version |-> dict_get(backend.export, "version", ""),
                 word_count |-> Cardinality(DOMAIN backend.export.words),
                 lesson_count |-> dict_get(backend.export, "lessonCount", 0),
                 changed |-> TRUE ],
             steps |-> checks \o fetches \o <<"_save_curriculum", "_save_version">>,
             written |-> TRUE ]

\* CurriculumSync.sync: the result it returns, the calls it makes in order
\* (steps), and whether it wrote the cache files
sync(backend) ==
  LET checks == retry_calls("check_version", backend.version_failures)
      fetches == retry_calls("fetch_curriculum", backend.export_failures)
      info == backend.version_info
  IN  IF retry_raises(backend.version_failures)
      THEN [result |-> SyncFailed, steps |-> checks, written |-> FALSE]
      ELSE IF ~ dict_get(info, "changed", TRUE)
      THEN [ result |->
               [ success |-> TRUE,
                 version |-> dict_get(info, "version", ""),
                 word_count |-> dict_get(info, "wordCount", 0),
                 lesson_count |-> dict_get(info, "lessonCount", 0),
                 changed |-> FALSE ],
             steps |-> checks,
             written |-> FALSE ]
      ELSE IF retry_raises(backend.export_failures)
      THEN [result |-> SyncFailed, steps |-> checks \o fetches, written |-> FALSE]
      ELSE [ result |->
               [ success |-> TRUE,
                 version |-> dict_get(backend.export, "version", ""),
                 word_count |-> Cardinality(DOMAIN backend.export.words),
                 lesson_count |-> dict_get(backend.export, "lessonCount", 0),
                 changed |-> TRUE ],
             steps |-> checks \o fetches \o <<"_save_curriculum", "_save_version">>,
             written |-> TRUE ]

\* the cache files _save_curriculum and _save_version leave, as load reads them
saved_curriculum(export) ==
  [ words |-> dict_get(export, "words", [w \in {} |-> <<>>]),
    version |-> dict_get(export, "version", "") ]

\* VALIDATOR_API_KEY and ENVIRONMENT of the deployment
Settings ==
  { [API_KEY |-> "secret", ENVIRONMENT |-> "production"],
    [API_KEY |-> "", ENVIRONMENT |-> "development"],
    [API_KEY |-> "", ENVIRONMENT |-> "production"] }

\* the X-API-Key header of a request: absent, empty, wrong, right
ApiKeyHeaders == {<<>>, <<"">>, <<"wrong-key">>, <<"secret">>}

Authorized == [kind |-> "authorized"]

\* verify_api_key
verify_api_key(settings, x_api_key) ==
  IF settings.API_KEY = ""
  THEN IF settings.ENVIRONMENT = "development" THEN Authorized
       ELSE [kind |-> "http_error", status |-> 500]
  ELSE IF x_api_key = <<>> \/ x_api_key[1] = "" \/ x_api_key[1] # settings.API_KEY
       THEN [kind |-> "http_error", status |-> 401]
       ELSE Authorized

\* POST /sync: the dependency verify_api_key runs before the handler; the
\* handler runs sync.sync() and reloads the validator when the result says
\* changed.  The response carries the calls made for it, in order.
PostSync ==
  /\ Idle
  /\ \E settings \in Settings, x_api_key \in ApiKeyHeaders, backend \in Backends :
       LET auth == verify_api_key(settings, x_api_key)
           out == sync(backend)
           file == saved_curriculum(backend.export)
       IN  /\ request' = [ op |-> "sync", settings |-> settings,
                           x_api_key |-> x_api_key, backend |-> backend ]
           /\ IF auth # Authorized
              THEN /\ response' = [ kind |-> "http_error", status |-> auth.status,
                                    steps |-> <<>> ]
                   /\ UNCHANGED <<curriculum, version, loaded, jieba_dict,
                                  curriculum_file>>
              ELSE IF out.result.changed
              THEN /\ curriculum' = load_curriculum(jieba_dict, file).curriculum
                   /\ version' = load_curriculum(jieba_dict, file).version
                   /\ loaded' = load_curriculum(jieba_dict, file).loaded
                   /\ jieba_dict' = load_curriculum(jieba_dict, file).jieba_dict
                   /\ curriculum_file' = file
                   /\ response' = [ kind |-> "sync",
                                    success |-> out.result.success,
                                    version |-> out.result.version,
                                    word_count |-> out.result.word_count,
                                    lesson_count |-> out.result.lesson_count,
                                    changed |-> out.result.changed,
                                    steps |-> out.steps \o <<"reload">> ]
              ELSE /\ response' = [ kind |-> "sync",
                                    success |-> out.result.success,
                                    version |-> out.result.version,
                                    word_count |-> out.result.word_count,
                                    lesson_count |-> out.result.lesson_count,
                                    changed |-> out.result.changed,
                                    steps |-> out.steps ]
                   /\ UNCHANGED <<curriculum, version, loaded, jieba_dict,
                                  curriculum_file>>
  /\ UNCHANGED <<rec, content_file>>

\* the sync endpoint beside the other writers of the validator
NextSync ==
  \/ LoadCurriculum
  \/ SeedTestCurriculum
  \/ PostSync
  \/ Respond

SpecSync == Init /\ [][NextSync]_vars

\* ------------------------------------------------------------ the startup
\* the answers of GET /v1/curriculum/full-export/version
BackendFullVersionInfos ==
  { [version |-> "content-v1", vocabCount |-> 3, lessonCount |-> 3, storyCount |-> 1],
    [vocabCount |-> 0] }

\* the answers of GET /v1/curriculum/full-export: one story, one audiobook
BackendFullExports ==
  { d \in ServiceContentFiles :
      /\ Len(d.stories) = 1 /\ d.stories[1].fullText = FullTexts[1]
      /\ Len(d.audiobooks) = 1 }

\* what the backend does during one full sync: it answers at once, or on
\* the third attempt, or not at all
FullBackends ==
  [ version_failures : {0, StopAfterAttempt - 1, StopAfterAttempt},
    version_info : BackendFullVersionInfos,
    export_failures : {0, StopAfterAttempt},
    export : BackendFullExports ]

\* what the backend does during the sync of a startup
StartupBackends ==
  { b \in Backends :
      /\ b.version_failures \in {0, StopAfterAttempt}
      /\ b.export_failures \in {0, StopAfterAttempt - 1, StopAfterAttempt} }

\* the except branch of CurriculumSync.sync_full
SyncFullFailed ==
  [ success |-> FALSE, version |-> "", vocab_count |-> 0, lesson_count |-> 0,
    story_count |-> 0, audiobook_count |-> 0, changed |-> FALSE ]

\* CurriculumSync.sync_full: the result it returns, the calls it makes in
\* order, and whether it wrote the cache files (local_version: the content of
\* content_version.txt, "" without the file)
sync_full(local_version, backend) ==
  LET checks == retry_calls("check_full_export_version", backend.version_failures)
      fetches == retry_calls("fetch_full_export", backend.export_failures)
      info == backend.version_info
      content == backend.export
      remote_version == dict_get(info, "version", "")
  IN  IF retry_raises(backend.version_failures)
      THEN [result |-> SyncFullFailed, steps |-> checks, written |-> FALSE]
      ELSE IF local_version = remote_version
      THEN [ result |->
               [ success |-> TRUE,
                 version |-> remote_version,
                 vocab_count |-> dict_get(info, "vocabCount", 0),
                 lesson_count |-> dict_get(info, "lessonCount", 0),
                 story_count |-> dict_get(info, "storyCount", 0),
                 audiobook_count |-> 0,
                 changed |-> FALSE ],
             steps |-> checks,
             written |-> FALSE ]
      ELSE IF retry_raises(backend.export_failures)
      THEN [result |-> SyncFullFailed, steps |-> checks \o fetches, written |-> FALSE]
      ELSE [ result |->
               [ success |-> TRUE,
                 version |-> dict_get(content, "version", ""),
                 vocab_count |-> Len(dict_get(content, "vocabulary", <<>>)),
                 lesson_count |-> Len(dict_get(content, "lessons", <<>>)),
                 story_count |-> Len(dict_get(content, "stories", <<>>)),
                 audiobook_count |-> Len(dict_get(content, "audiobooks", <<>>)),
                 changed |-> TRUE ],
             steps |-> checks \o fetches \o <<"_save_content", "_save_content_version">>,
             written |-> TRUE ]

\* data/curriculum.json + version.txt when the process starts: <<>> without
\* the files
CurriculumCaches == {<<>>} \cup {<<f>> : f \in CurriculumFiles}

\* data/content.json when the process starts: <<>> without the file
ContentCaches ==
  {<<>>} \cup {<<d>> : d \in BackendFullExports}
         \cup {<<WithoutFullText(d, 1)>> : d \in BackendFullExports}

\* how VocabValidator.load ends on a cache
validator_load_outcome(cache) ==
  IF cache = <<>> THEN "FileNotFoundError" ELSE "loaded"

\* how ContentRecommender.load ends on a cache: without content.json it
\* returns, on a story without "fullText" it raises KeyError
recommender_load_outcome(cache) ==
  IF cache = <<>> THEN "returned"
  ELSE IF \E n \in DOMAIN cache[1].stories : "fullText" \notin DOMAIN cache[1].stories[n]
  THEN "KeyError"
  ELSE "loaded"

\* the process starts: lifespan is entered with the objects as constructed;
\* request holds the phase of lifespan (pc), the cache the phase finds on disk
\* and what the backend does when the phase calls it
StartLifespan ==
  /\ Idle /\ request = NoRequest
  /\ ~ loaded /\ curriculum = [w \in {} |-> <<>>] /\ version = ""
  /\ rec = NewRecommender /\ jieba_dict = {}
  /\ \E cache \in CurriculumCaches, backend \in StartupBackends :
       request' = [ op |-> "lifespan", pc |-> "validator", cache |-> cache,
                    backend |-> backend ]
  /\ response' = [kind |-> "lifespan", steps |-> <<>>]
  /\ UNCHANGED <<curriculum, version, loaded, jieba_dict, rec, curriculum_file,
                 content_file>>

\* lifespan, "Load validator": validator.load(); on FileNotFoundError
\* sync.sync() and, when it reports success, validator.load() again (which
\* raises again when nothing was downloaded)
LifespanValidator ==
  /\ request.op = "lifespan" /\ request.pc = "validator"
  /\ LET outcome == validator_load_outcome(request.cache)
         out == sync(request.backend)
         file == IF outcome = "loaded" THEN request.cache[1]
                 ELSE saved_curriculum(request.backend.export)
         loads == \/ outcome = "loaded"
                  \/ /\ outcome = "FileNotFoundError"
                     /\ out.result.success /\ out.written
         steps == IF outcome = "loaded" THEN <<"validator.load">>
                  ELSE IF outcome = "FileNotFoundError"
                  THEN <<"validator.load", "sync">> \o out.steps
                       \o (IF out.result.success THEN <<"validator.load">> ELSE <<>>)
                  ELSE <<"validator.load">>
     IN  /\ IF loads
            THEN /\ curriculum' = load_curriculum(jieba_dict, file).curriculum
                 /\ version' = load_curriculum(jieba_dict, file).version
                 /\ loaded' = load_curriculum(jieba_dict, file).loaded
                 /\ jieba_dict' = load_curriculum(jieba_dict, file).jieba_dict
                 /\ curriculum_file' = file
            ELSE UNCHANGED <<curriculum, version, loaded, jieba_dict,
                             curriculum_file>>
         /\ response' = [response EXCEPT !.steps = @ \o steps]
  /\ \E cache \in ContentCaches, backend \in FullBackends :
       request' = [ op |-> "lifespan", pc |-> "recommender", cache |-> cache,
                    backend |-> backend ]
  /\ UNCHANGED <<rec, content_file>>

\* lifespan, "Load recommender": recommender.load(); on FileNotFoundError
\* sync.sync_full() and, when it reports success and changed,
\* recommender.load() again; any other exception is logged
LifespanRecommender ==
  /\ request.op = "lifespan" /\ request.pc = "recommender"
  /\ LET outcome == recommender_load_outcome(request.cache)
         out == sync_full("", request.backend)
         data == IF outcome = "FileNotFoundError" THEN request.backend.export
                 ELSE request.cache[1]
         loads == \/ outcome = "loaded"
                  \/ /\ outcome = "FileNotFoundError"
                     /\ out.result.success /\ out.result.changed
         steps == IF outcome = "FileNotFoundError"
                  THEN <<"recommender.load", "sync_full">> \o out.steps
                       \o (IF out.result.success /\ out.result.changed
                           THEN <<"recommender.load">> ELSE <<>>)
                  ELSE <<"recommender.load">>
     IN  /\ IF loads
            THEN /\ rec' = load_content(rec, data)
                 /\ jieba_dict' = jieba_dict
                      \cup {data.vocabulary[i].hanzi : i \in DOMAIN data.vocabulary}
                 /\ content_file' = data
            ELSE IF outcome = "KeyError"
            THEN /\ rec' = load_content_raises(rec, data)
                 /\ jieba_dict' = jieba_dict
                      \cup {data.vocabulary[i].hanzi : i \in DOMAIN data.vocabulary}
                 /\ content_file' = data
            ELSE UNCHANGED <<rec, jieba_dict, content_file>>
         /\ response' = [response EXCEPT !.steps = @ \o steps]
  /\ request' = [op |-> "lifespan", pc |-> "yield"]
  /\ UNCHANGED <<curriculum, version, loaded, curriculum_file>>

\* lifespan reaches its yield: the service starts to answer requests
LifespanYield ==
  /\ request.op = "lifespan" /\ request.pc = "yield"
  /\ request' = NoRequest
  /\ response' = NoResponse
  /\ UNCHANGED <<curriculum, version, loaded, jieba_dict, rec, curriculum_file,
                 content_file>>

\* the startup alone, no request is sent to the service
NextStartup ==
  \/ StartLifespan
  \/ LifespanValidator
  \/ LifespanRecommender
  \/ LifespanYield

SpecStartup == Init /\ [][NextStartup]_vars

\* the event loop runs lifespan to its yield: every phase ends, the calls to
\* the backend by their timeout and their third attempt
SpecStartupFair ==
  /\ SpecStartup
  /\ WF_vars(LifespanValidator)
  /\ WF_vars(LifespanRecommender)
  /\ WF_vars(LifespanYield)

\* the validation endpoints and the curriculum reload
NextValidator ==
  \/ LoadCurriculum
  \/ ValidateText
  \/ ValidateLesson
  \/ ValidateReading
  \/ Respond

SpecValidator == Init /\ [][NextValidator]_vars

\* the recommendation endpoint and the content reload
NextRecommender ==
  \/ LoadContent
  \/ Recommend
  \/ Respond

SpecRecommender == Init /\ [][NextRecommender]_vars

Next ==
  NextValidator \/ NextRecommender \/ NextService \/ NextPosition \/ NextSync
  \/ NextStartup

Spec == Init /\ [][Next]_vars

\* ===================================================================== claims

\* C1: after recommend, every scored item with ratio >= 0.75 is in the items
\* of exactly one tier, every scored item with ratio < 0.75 is in no tier,
\* and excludedCount is the number of scored items with ratio < 0.75.
\* Stated for the calls whose per-tier cap is at least the number of scored
\* items, so that the cap cuts nothing.
C1_TierPartition ==
  response.kind = "recommend" =>
    LET known == get_known_words_for_lesson(rec, request.lesson_id)
        items == gather_content(rec, known, request.content_type)
        Low(i) == 4 * items[i].comprehension.num < 3 * items[i].comprehension.den
        Places(id) == { <<t, k>> \in ToSet(TierName) \X (1..Len(items)) :
                          /\ k \in DOMAIN response.tiers[t].items
                          /\ response.tiers[t].items[k].id = id }
    IN  request.items_per_tier >= Len(items) =>
          /\ \A i \in DOMAIN items :
               IF Low(i) THEN Places(items[i].id) = {}
               ELSE Cardinality(Places(items[i].id)) = 1
          /\ response.excludedCount = Cardinality({i \in DOMAIN items : Low(i)})

\* C2: after recommend, an item whose comprehension is exactly 1.0 (all its
\* curriculum-tagged tokens known, or none tagged) is among the Comfort items
\* whenever the cap does not cut it off (here: the cap is at least the number
\* of scored items).
C2_FullComprehensionIsComfort ==
  response.kind = "recommend" =>
    LET known == get_known_words_for_lesson(rec, request.lesson_id)
        content == (IF request.content_type \in {"story", "all"}
                    THEN rec.stories ELSE <<>>)
                   \o (IF request.content_type \in {"audiobook", "all"}
                       THEN rec.audiobooks ELSE <<>>)
        Full(i) == \A k \in DOMAIN content[i].tokens :
                     content[i].tokens[k].wordId # <<>>
                       => content[i].tokens[k].wordId[1] \in known
    IN  request.items_per_tier >= Len(content) =>
          \A i \in DOMAIN content :
            Full(i) => \E k \in DOMAIN response.tiers.comfort.items :
                         response.tiers.comfort.items[k].id = content[i].id

\* C3 as claimed: in validate, validate_lesson and validate_reading_structured
\* a token that is in the caller's focus/target set is reported as focus
\* (target_words, focus_words_found), also when it is in always_safe.
C3_FocusFirstInAllModes ==
  /\ response.kind = "validate" =>
       \A w \in ToSet(response.words_found) \cap ToSet(request.target_words) :
         w \in response.target_words
  /\ response.kind \in {"validate_lesson", "validate_reading"} =>
       \A w \in ToSet(FilterWords(request.text)) \cap ToSet(request.focus_words) :
         w \in response.focus_words_found

\* C3 amended: validate_lesson and validate_reading_structured test the focus
\* set before always_safe, so a focus token is reported in focus_words_found
\* also when it is always-safe; validate tests always_safe first, so a target
\* token that is always-safe is reported in safe_words and not in
\* target_words, and any other target token is reported in target_words only,
\* whatever its curriculum position and also when the curriculum lacks it.
C3_FocusPrecedence ==
  /\ response.kind = "validate" =>
       \A w \in ToSet(response.words_found) \cap ToSet(request.target_words) :
         IF w \in always_safe
         THEN w \in response.safe_words /\ w \notin response.target_words
         ELSE /\ w \in response.target_words
              /\ w \notin response.safe_words \cup response.forbidden_words
                            \cup response.unknown_words
  /\ response.kind \in {"validate_lesson", "validate_reading"} =>
       \A w \in ToSet(FilterWords(request.text)) \cap ToSet(request.focus_words) :
         w \in response.focus_words_found

\* C3 witness: validate_lesson found a focus word that is always-safe and one
\* that the curriculum lacks
C3_Witness ==
  /\ response.kind = "validate_lesson"
  /\ W_wo \in response.focus_words_found
  /\ W_xuexi \in response.focus_words_found
  /\ W_xuexi \notin DOMAIN curriculum

C5_CurrentLessonWordIsTarget ==
  response.kind = "validate" =>
    \A w \in ToSet(response.words_found) :
      (w \in DOMAIN curriculum /\ w \notin always_safe
         /\ _parse_position(curriculum[w])
              = <<request.user_hsk, request.user_lesson>>) =>
        w \in response.target_words /\ w \notin response.safe_words

\* C6: validate returns valid = true iff no token of the text is Forbidden
\* (a curriculum word, not always-safe, not a target word, placed after the
\* caller's position); a token outside the curriculum that is neither
\* always-safe nor a target word is reported in unknown_words and has no
\* part in the verdict.
C6_ValidIffNoForbidden ==
  response.kind = "validate" =>
    LET Forbidden(w) ==
          /\ w \in DOMAIN curriculum /\ w \notin always_safe
          /\ w \notin ToSet(request.target_words)
          /\ LET p == _parse_position(curriculum[w])
             IN  \/ p[1] > request.user_hsk
                 \/ p[1] = request.user_hsk /\ p[2] > request.user_lesson
        Unknown(w) == /\ w \notin DOMAIN curriculum /\ w \notin always_safe
                      /\ w \notin ToSet(request.target_words)
        words == FilterWords(request.text)
    IN  /\ response.valid <=> ~ \E i \in DOMAIN words : Forbidden(words[i])
        /\ response.unknown_words = {words[i] : i \in {j \in DOMAIN words : Unknown(words[j])}}

\* C6 witness: a valid verdict on a text with an unknown word
C6_Witness ==
  /\ response.kind = "validate"
  /\ response.valid
  /\ response.unknown_words # {}
  /\ response.safe_words # {}

\* C7: validate_lesson returns valid = true iff no token is invalid and every
\* distinct focus word occurs in the filtered token stream; a token is invalid
\* iff it is a curriculum word, not a focus word, not always-safe, with
\* (level-1)*10+lesson above the caller's absolute lesson; invalid_words lists
\* exactly those tokens.
C7_LessonValidIff ==
  response.kind = "validate_lesson" =>
    LET words == FilterWords(request.text)
        focus == ToSet(request.focus_words)
        ceiling == (request.hsk_level - 1) * 10 + request.lesson_number
        Invalid(w) ==
          /\ w \in DOMAIN curriculum /\ w \notin focus /\ w \notin always_safe
          /\ LET p == _parse_position(curriculum[w])
             IN  (p[1] - 1) * 10 + p[2] > ceiling
        bad == {i \in DOMAIN words : Invalid(words[i])}
    IN  /\ response.valid <=> (bad = {} /\ focus \subseteq ToSet(words))
        /\ Len(response.invalid_words) = Cardinality(bad)
        /\ {response.invalid_words[k].word : k \in DOMAIN response.invalid_words}
             = {words[i] : i \in bad}
        /\ response.focus_words_missing = focus \ ToSet(words)

\* C7 witness: a valid lesson text with a focus word and an unknown word
C7_Witness ==
  /\ response.kind = "validate_lesson"
  /\ response.valid
  /\ response.focus_words_found # {}
  /\ response.unknown_words # {}
  /\ \E w \in ToSet(FilterWords(request.text)) :
       w \in DOMAIN curriculum /\ w \notin always_safe
         /\ w \notin ToSet(request.focus_words)

\* C8: the suggestion of validate_lesson names the forbidden words when there
\* is one, also when focus words are missing as well; it names the missing
\* focus words when there is no forbidden word; there is none when the
\* verdict is valid.  No missing focus word is in invalid_words.
C8_SuggestionPriority ==
  response.kind = "validate_lesson" =>
    LET bad == [k \in DOMAIN response.invalid_words |->
                  response.invalid_words[k].word]
    IN  /\ bad # <<>> =>
             /\ response.suggestion.kind = "replace"
             /\ response.suggestion.bad_words = bad
        /\ (bad = <<>> /\ response.focus_words_missing # {}) =>
             /\ response.suggestion.kind = "missing"
             /\ response.suggestion.missing = response.focus_words_missing
        /\ response.valid => response.suggestion.kind = "none"
        /\ ToSet(bad) \cap response.focus_words_missing = {}

\* C8 witness: forbidden words and missing focus words at once
C8_Witness ==
  /\ response.kind = "validate_lesson"
  /\ response.invalid_words # <<>>
  /\ response.focus_words_missing # {}
  /\ response.suggestion.kind = "replace"

\* C9 as claimed: on a non-empty token stream unknown_ratio is exactly
\* (occurrences neither focus nor always-safe nor known/allowed) / (all
\* occurrences); too_hard iff the ratio > 0.25; ok iff not too_hard and every
\* focus word occurs; suggestions are present iff ok is false.
C9_ExactRatio ==
  (response.kind = "validate_reading" /\ FilterWords(request.text) # <<>>) =>
    LET words == FilterWords(request.text)
        focus == ToSet(request.focus_words)
        Known(w) ==
          IF request.allowed_words # <<>>
          THEN w \in ToSet(request.allowed_words)
          ELSE /\ w \in DOMAIN curriculum
               /\ LET p == _parse_position(curriculum[w])
                  IN  (p[1] - 1) * 10 + p[2]
                        <= (request.hsk_level - 1) * 10 + request.user_lesson_position
        u == Cardinality({i \in DOMAIN words :
                            /\ words[i] \notin focus /\ words[i] \notin always_safe
                            /\ ~ Known(words[i])})
    IN  /\ response.unknown_ratio * Len(words) = 1000 * u
        /\ response.too_hard <=> 4 * u > Len(words)
        /\ response.ok <=> (~ response.too_hard /\ focus \subseteq ToSet(words))
        /\ response.suggestions.present <=> ~ response.ok

\* C9 amended: unknown_ratio is that quotient rounded to three decimals (the
\* nearest thousandth); too_hard iff the unrounded quotient > 0.25; ok iff not
\* too_hard and every focus word occurs; suggestions present iff ok is false.
C9_RoundedRatio ==
  (response.kind = "validate_reading" /\ FilterWords(request.text) # <<>>) =>
    LET words == FilterWords(request.text)
        focus == ToSet(request.focus_words)
        Known(w) ==
          IF request.allowed_words # <<>>
          THEN w \in ToSet(request.allowed_words)
          ELSE /\ w \in DOMAIN curriculum
               /\ LET p == _parse_position(curriculum[w])
                  IN  (p[1] - 1) * 10 + p[2]
                        <= (request.hsk_level - 1) * 10 + request.user_lesson_position
        u == Cardinality({i \in DOMAIN words :
                            /\ words[i] \notin focus /\ words[i] \notin always_safe
                            /\ ~ Known(words[i])})
        off == response.unknown_ratio * Len(words) - 1000 * u
    IN  /\ 2 * off <= Len(words) /\ 0 - Len(words) <= 2 * off
        /\ response.too_hard <=> 4 * u > Len(words)
        /\ response.ok <=> (~ response.too_hard /\ focus \subseteq ToSet(words))
        /\ response.suggestions.present <=> ~ response.ok

\* C9 witness: two of three occurrences unknown, the same word twice
C9_Witness ==
  /\ response.kind = "validate_reading"
  /\ request.text = <<W_keneng, W_nihao, W_keneng>>
  /\ response.unknown_ratio = 667
  /\ response.too_hard

\* C10: validate_reading_structured sets too_easy iff the unknown ratio is
\* < 0.05 and a focus word is missing; so too_easy implies that
\* focus_words_missing is not empty, also for a focus list with repeats.
C10_TooEasyIffLowAndMissing ==
  (response.kind = "validate_reading" /\ FilterWords(request.text) # <<>>) =>
    LET words == FilterWords(request.text)
        focus == ToSet(request.focus_words)
        Known(w) ==
          IF request.allowed_words # <<>>
          THEN w \in ToSet(request.allowed_words)
          ELSE /\ w \in DOMAIN curriculum
               /\ LET p == _parse_position(curriculum[w])
                  IN  (p[1] - 1) * 10 + p[2]
                        <= (request.hsk_level - 1) * 10 + request.user_lesson_position
        u == Cardinality({i \in DOMAIN words :
                            /\ words[i] \notin focus /\ words[i] \notin always_safe
                            /\ ~ Known(words[i])})
    IN  /\ response.too_easy <=> (20 * u < Len(words) /\ ~ (focus \subseteq ToSet(words)))
        /\ response.too_easy => response.focus_words_missing # {}

\* C11: when validate_reading_structured is given an allowed-word list (a
\* non-empty one: the code takes an empty list as none given), the curriculum
\* is not consulted.  Every token outside the focus set, always_safe and the
\* allowed set is unknown (reported in new_words_for_user, counted in the
\* ratio), every allowed token is known, no word is reported too advanced,
\* and the same call under any other loaded curriculum map returns the same
\* result.
C11_AllowedOverridesCurriculum ==
  (response.kind = "validate_reading" /\ request.allowed_words # <<>>) =>
    LET words == FilterWords(request.text)
        focus == ToSet(request.focus_words)
        allowed == ToSet(request.allowed_words)
        Unknown(w) == w \notin focus /\ w \notin always_safe /\ w \notin allowed
        u == Cardinality({i \in DOMAIN words : Unknown(words[i])})
    IN  /\ words # <<>> =>
             /\ response.new_words_for_user
                  = {words[i] : i \in {j \in DOMAIN words : Unknown(words[j])}}
             /\ response.too_many_unknowns = {}
             /\ response.unknown_ratio = py_round(u, Len(words), 1000)
             /\ response.too_hard <=> 4 * u > Len(words)
        /\ \A file \in CurriculumFiles :
             \A ban \in BanChoices(reading_too_advanced(file.words, request.text,
                          request.user_lesson_position, request.hsk_level,
                          request.focus_words, request.allowed_words)) :
               validate_reading_structured(file.words, request.text,
                 request.user_lesson_position, request.hsk_level,
                 request.focus_words, request.allowed_words, ban) = response

\* C11 witness: with an allowed list, a word the curriculum teaches at the
\* caller's position is unknown and a word the curriculum places later is known
C11_Witness ==
  /\ response.kind = "validate_reading"
  /\ request.allowed_words # <<>>
  /\ \E w \in response.new_words_for_user :
       /\ w \in DOMAIN curriculum
       /\ LET pos == _parse_position(curriculum[w])
          IN  absolute_lesson(pos[1], pos[2])
                <= absolute_lesson(request.hsk_level, request.user_lesson_position)
  /\ \E w \in ToSet(request.allowed_words) \cap ToSet(FilterWords(request.text)) :
       /\ w \in DOMAIN curriculum
       /\ w \notin ToSet(request.focus_words)
       /\ LET pos == _parse_position(curriculum[w])
          IN  absolute_lesson(pos[1], pos[2])
                > absolute_lesson(request.hsk_level, request.user_lesson_position)

\* C12: validate_reading_structured on a text with no token left after the
\* punctuation/whitespace filter returns ok = false, unknown_ratio = 1.0,
\* too_hard = true, too_easy = false, focus_words_missing = the focus words as
\* supplied and require_tokens equal to them, for every focus list and every
\* allowed list.
C12_EmptyTokenStream ==
  (response.kind = "validate_reading" /\ FilterWords(request.text) = <<>>) =>
    /\ response.ok = FALSE
    /\ response.unknown_ratio = 1000
    /\ response.too_hard = TRUE
    /\ response.too_easy = FALSE
    /\ response.focus_words_found = {}
    /\ response.focus_words_missing = request.focus_words
    /\ response.suggestions.present
    /\ response.suggestions.require_tokens = request.focus_words
    /\ response.suggestions.ban_tokens = {}

\* C12 witness: a text of punctuation only, with focus words and an allowed list
C12_Witness ==
  /\ response.kind = "validate_reading"
  /\ request.text # <<>>
  /\ FilterWords(request.text) = <<>>
  /\ request.focus_words # <<>>
  /\ request.allowed_words # <<>>
  /\ response.focus_words_missing = request.focus_words

\* C13: for every item recommend scores, with D the token occurrences that
\* carry a curriculum identifier, comprehension is (occurrences of D whose
\* identifier is known) / |D|, each occurrence counted; tokens without
\* identifier are in neither count; when D is empty comprehension is exactly
\* 1.0 with an empty unknown-word list and unknown count 0.
C13_TokenLevelComprehension ==
  response.kind = "recommend" =>
    LET known == get_known_words_for_lesson(rec, request.lesson_id)
        content == (IF request.content_type \in {"story", "all"}
                    THEN rec.stories ELSE <<>>)
                   \o (IF request.content_type \in {"audiobook", "all"}
                       THEN rec.audiobooks ELSE <<>>)
        items == gather_content(rec, known, request.content_type)
        D(i) == {k \in DOMAIN content[i].tokens : content[i].tokens[k].wordId # <<>>}
        K(i) == {k \in D(i) : content[i].tokens[k].wordId[1] \in known}
        UnknownIds(i) == {content[i].tokens[k].wordId[1] : k \in D(i) \ K(i)}
    IN  /\ Len(items) = Len(content)
        /\ \A i \in DOMAIN content :
             IF D(i) = {}
             THEN /\ items[i].comprehension.num = items[i].comprehension.den
                  /\ items[i].unknownWords = <<>>
                  /\ items[i].unknownCount = 0
             ELSE /\ items[i].comprehension.num = Cardinality(K(i))
                  /\ items[i].comprehension.den = Cardinality(D(i))
                  /\ items[i].unknownCount = Cardinality(UnknownIds(i))
                  /\ {items[i].unknownWords[k].wordId : k \in DOMAIN items[i].unknownWords}
                       = UnknownIds(i)

\* C13 witness: one call scores a text with a repeated known word at 19/20
\* and a text whose only token has no identifier at 1.0
C13_Witness ==
  /\ response.kind = "recommend"
  /\ LET items == gather_content(rec,
                    get_known_words_for_lesson(rec, request.lesson_id),
                    request.content_type)
     IN  /\ \E i \in DOMAIN items :
              items[i].comprehension = [num |-> 19, den |-> 20]
         /\ \E i \in DOMAIN items :
              /\ items[i].totalTokens > 0
              /\ items[i].comprehension = [num |-> 1, den |-> 1]
              /\ \E k \in DOMAIN rec.stories :
                   /\ rec.stories[k].id = items[i].id
                   /\ \A t \in DOMAIN rec.stories[k].tokens :
                        rec.stories[k].tokens[t].wordId = <<>>

\* C14: comprehension is monotone in the known set.  For the token list of
\* every story and audiobook the recommender holds and every two sets of
\* word identifiers K1 \subseteq K2, comprehension(tokens, K1) <=
\* comprehension(tokens, K2), and the unknown words reported for K2 are among
\* those reported for K1.
C14_ComprehensionMonotone ==
  response.kind = "recommend" =>
    LET content == rec.stories \o rec.audiobooks
        Ids == DOMAIN rec.vocab_by_id
                 \cup get_known_words_for_lesson(rec, request.lesson_id)
        Words(c) == {c.unknown_words[k] : k \in DOMAIN c.unknown_words}
    IN  \A i \in DOMAIN content :
          \A K2 \in SUBSET Ids :
            \A K1 \in SUBSET K2 :
              LET c1 == _calculate_comprehension(content[i].tokens, K1)
                  c2 == _calculate_comprehension(content[i].tokens, K2)
              IN  /\ ~ FracLess(c2.comprehension, c1.comprehension)
                  /\ Words(c2) \subseteq Words(c1)
                  /\ c2.unknown_count <= c1.unknown_count

\* C14 witness: the caller's known set lifts an item strictly above what the
\* empty set gives, and leaves part of it unknown
C14_Witness ==
  /\ response.kind = "recommend"
  /\ LET known == get_known_words_for_lesson(rec, request.lesson_id)
         content == rec.stories \o rec.audiobooks
     IN  \E i \in DOMAIN content :
           LET c0 == _calculate_comprehension(content[i].tokens, {})
               c1 == _calculate_comprehension(content[i].tokens, known)
           IN  /\ FracLess(c0.comprehension, c1.comprehension)
               /\ FracLess(c1.comprehension, [num |-> 1, den |-> 1])
               /\ 0 < c1.unknown_count /\ c1.unknown_count < c0.unknown_count

\* C15: once loaded, for the lesson at index i of lesson_order,
\* cumulative_words[lesson_i] is the union of the lesson_word_map lists of the
\* lessons at indices up to i, a lesson without entry adding nothing; the
\* sets grow along lesson order; and they stay so in every later state, a
\* recommend call included (recommend only reads them).
C15_CumulativeWords ==
  rec.loaded =>
    LET order == rec.lesson_order
        Taught(j) == IF order[j] \in DOMAIN rec.lesson_word_map
                     THEN {rec.lesson_word_map[order[j]][k] :
                             k \in DOMAIN rec.lesson_word_map[order[j]]}
                     ELSE {}
    IN  /\ DOMAIN rec.cumulative_words = {order[i] : i \in DOMAIN order}
        /\ \A i \in DOMAIN order :
             rec.cumulative_words[order[i]] = UNION {Taught(j) : j \in 1..i}
        /\ \A i \in DOMAIN order : \A j \in DOMAIN order :
             i <= j => rec.cumulative_words[order[i]]
                         \subseteq rec.cumulative_words[order[j]]

\* C15 witness: after a recommend call on a loaded file whose first lesson has
\* no word list, the second lesson's set is strictly larger than the first's
C15_Witness ==
  /\ rec.loaded
  /\ response.kind = "recommend"
  /\ Len(rec.lesson_order) >= 2
  /\ rec.lesson_order[1] \notin DOMAIN rec.lesson_word_map
  /\ rec.cumulative_words[rec.lesson_order[1]] = {}
  /\ rec.cumulative_words[rec.lesson_order[2]] # {}

\* C16: an always-safe word of the text that the caller does not name as
\* target/focus word is Safe at every caller position, whatever position the
\* curriculum gives it and also when the curriculum lacks it: validate reports
\* it in safe_words and in no other list, validate_lesson reports it neither
\* in invalid_words nor in unknown_words, validate_reading_structured reports
\* it neither as new nor as too advanced nor as a token to ban, and a text of
\* always-safe and focus words only has unknown ratio 0.
C16_AlwaysSafe ==
  LET words == ToSet(FilterWords(request.text))
  IN  /\ response.kind = "validate" =>
           \A w \in (words \cap always_safe) \ ToSet(request.target_words) :
             /\ w \in response.safe_words
             /\ w \notin response.forbidden_words \cup response.unknown_words
                           \cup response.target_words
      /\ response.kind = "validate_lesson" =>
           \A w \in (words \cap always_safe) \ ToSet(request.focus_words) :
             /\ \A k \in DOMAIN response.invalid_words :
                  response.invalid_words[k].word # w
             /\ w \notin response.unknown_words
             /\ w \notin response.focus_words_found
      /\ (response.kind = "validate_reading" /\ words # {}) =>
           /\ \A w \in (words \cap always_safe) \ ToSet(request.focus_words) :
                /\ w \notin response.new_words_for_user
                /\ w \notin response.too_many_unknowns
                /\ response.suggestions.present =>
                     w \notin response.suggestions.ban_tokens
           /\ words \subseteq always_safe \cup ToSet(request.focus_words) =>
                response.unknown_ratio = 0 /\ ~ response.too_hard

\* C16 witness: validate_lesson accepts a text with an always-safe word that
\* the curriculum places after the caller's lesson
C16_Witness ==
  /\ response.kind = "validate_lesson"
  /\ response.valid
  /\ \E w \in ToSet(FilterWords(request.text)) \cap always_safe :
       /\ w \notin ToSet(request.focus_words)
       /\ w \in DOMAIN curriculum
       /\ LET pos == _parse_position(curriculum[w])
          IN  absolute_lesson(pos[1], pos[2])
                > absolute_lesson(request.hsk_level, request.lesson_number)

\* C18: reload is atomic for readers.  A call served around a reload sees the
\* complete snapshot of the data loaded last before it ran (the old one when
\* it ran before the reload, the new one after), never a mixture: a
\* validation call runs on exactly the map and version of the curriculum
\* file read last, and a recommend call returns what a recommender holding
\* exactly the content file read last returns.
C18_ReaderSeesCompleteSnapshot ==
  /\ response.kind \in {"validate", "validate_lesson", "validate_reading"} =>
       /\ curriculum = curriculum_file.words
       /\ version = curriculum_file.version
  /\ response.kind = "recommend" =>
       response = recommend(load_content(NewRecommender, content_file),
                            request.lesson_id, request.content_type,
                            request.items_per_tier)

\* C19: reload replaces the vocabulary wholesale.  After a load the
\* validator's curriculum map has exactly the entries of the file read, the
\* recommender's vocab_by_id and vocab_by_hanzi have exactly the entries of
\* the file's vocabulary, and a token whose surface form is not in that
\* vocabulary carries no curriculum identifier.
C19_VocabularyReplacedWholesale ==
  /\ (loaded /\ version = curriculum_file.version) =>
       curriculum = curriculum_file.words
  /\ rec.loaded =>
       LET vocabulary == content_file.vocabulary
           hanzi == {vocabulary[i].hanzi : i \in DOMAIN vocabulary}
           content == rec.stories \o rec.audiobooks
       IN  /\ DOMAIN rec.vocab_by_id = {vocabulary[i].id : i \in DOMAIN vocabulary}
           /\ DOMAIN rec.vocab_by_hanzi = hanzi
           /\ \A i \in DOMAIN content :
                \A k \in DOMAIN content[i].tokens :
                  content[i].tokens[k].hanzi \notin hanzi
                    => content[i].tokens[k].wordId = <<>>

\* C17: an entry point of the validator called while the validator is not
\* loaded answers not-ready, /recommend called while the recommender is not
\* loaded answers not-ready, and an entry point that does run the engine runs
\* it on a completely loaded map: the validator's curriculum and version are
\* those of the curriculum file last read or of a seeded map, and the
\* recommender is what a complete load of the content file last read leaves.
ValidatorOps ==
  { "validate", "validate_lesson", "validate_reading", "validate_structure",
    "validate_pedagogy", "get_vocabulary", "segment" }

C17_NotReadyOrCompleteMap ==
  /\ (response.kind # "none" /\ request.op \in ValidatorOps) =>
       IF ~ loaded THEN response = NotReady
       ELSE /\ response # NotReady
            /\ \/ /\ curriculum = curriculum_file.words
                  /\ version = curriculum_file.version
               \/ /\ curriculum \in SeedWords
                  /\ version = "test-seed"
  /\ (response.kind # "none" /\ request.op = "recommend") =>
       IF ~ rec.loaded THEN response = NotReady
       ELSE /\ response # NotReady
            /\ \A n \in DOMAIN content_file.stories :
                 "fullText" \in DOMAIN content_file.stories[n]
            /\ load_content(rec, content_file) = rec

\* C20: in every reachable state that a load has left (no seeding since),
\* loading the same cache file once more changes nothing of the validator
\* (curriculum, version, loaded, registered words); loading the same content
\* file once more changes nothing of the recommender, also when the load
\* raises on a story; and the answer an entry point has given is an answer it
\* gives after the second load.
ReloadedValidator == load_curriculum(jieba_dict, curriculum_file)

ReloadedRecommender ==
  IF content_file \in BrokenContentFiles
  THEN load_content_raises(rec, content_file)
  ELSE load_content(rec, content_file)

C20_ReloadIdempotent ==
  /\ (loaded /\ version # "test-seed") =>
       /\ ReloadedValidator
            = [ curriculum |-> curriculum, version |-> version,
                loaded |-> loaded, jieba_dict |-> jieba_dict ]
       /\ (response.kind # "none" /\ request.op \in ValidatorOps) =>
            response \in ServiceResponses(ReloadedValidator.loaded,
                                          ReloadedValidator.curriculum,
                                          rec, request)
  /\ content_file # NoContentFile =>
       /\ ReloadedRecommender = rec
       /\ (response.kind # "none" /\ request.op = "recommend") =>
            response = post_recommend(ReloadedRecommender, request)

\* the recommender holds stories and audiobooks of a second generation, the
\* validator a curriculum, and /recommend has answered from them
C20_Witness ==
  /\ loaded /\ DOMAIN curriculum # {}
  /\ rec.loaded /\ rec.stories # <<>> /\ rec.audiobooks # <<>>
  /\ DOMAIN rec.vocab_by_id # {content_file.vocabulary[i].id :
                                 i \in DOMAIN content_file.vocabulary}
  /\ content_file \in ServiceContentFiles
  /\ load_content(rec, content_file) = rec
  /\ response.kind = "recommend"

\* C21: _parse_position returns (level, lesson) for a well-formed
\* "hsk<level>-l<lesson>" string (level and lesson each a non-empty run of
\* digits) and (0, 0) for every other string.
IsDigits(s) == s # <<>> /\ \A i \in DOMAIN s : s[i] \in Digits

WellFormedAt(s, i) ==
  /\ SubSeq(s, 1, 3) = <<"h", "s", "k">>
  /\ IsDigits(SubSeq(s, 4, i))
  /\ SubSeq(s, i + 1, i + 2) = <<"-", "l">>
  /\ IsDigits(SubSeq(s, i + 3, Len(s)))

WellFormedPosition(s) == \E i \in 4..(Len(s) - 3) : WellFormedAt(s, i)

C21_ParsePositionTotal ==
  response.kind = "_parse_position" =>
    LET s == request.position_str
    IN  IF WellFormedPosition(s)
        THEN \E i \in 4..(Len(s) - 3) :
               /\ WellFormedAt(s, i)
               /\ response.position = << digits_val(SubSeq(s, 4, i)),
                                         digits_val(SubSeq(s, i + 3, Len(s))) >>
        ELSE response.position = <<0, 0>>

\* C22: recommend for a lesson id outside the loaded lesson order answers
\* normally: knownWordCount is 0, the three tiers are there, excludedCount is
\* the number of selected items that have a curriculum-tagged token, and what
\* the tiers hold are items without such a token.
HasTaggedToken(item) == \E i \in DOMAIN item.tokens : item.tokens[i].wordId # <<>>

SelectedContent(r, content_type) ==
  (IF content_type \in {"story", "all"} THEN r.stories ELSE <<>>)
  \o (IF content_type \in {"audiobook", "all"} THEN r.audiobooks ELSE <<>>)

Occurrences(words, S) == Cardinality({i \in DOMAIN words : words[i] \in S})

C23_ExactlyOneClass ==
  response.kind = "validate" =>
    LET classes == << response.safe_words, response.target_words,
                      response.forbidden_words, response.unknown_words >>
    IN  /\ \A a, b \in 1..4 : a # b => classes[a] \cap classes[b] = {}
        /\ UNION {classes[a] : a \in 1..4} = ToSet(response.words_found)
        /\ Occurrences(response.words_found, classes[1])
             + Occurrences(response.words_found, classes[2])
             + Occurrences(response.words_found, classes[3])
             + Occurrences(response.words_found, classes[4])
             = response.stats.total_words
        /\ response.stats.total_words = Len(response.words_found)

\* three classes at once, one of them through a word named in target_words
\* that is always safe
C23_Witness ==
  /\ response.kind = "validate"
  /\ response.safe_words # {}
  /\ response.forbidden_words # {}
  /\ response.unknown_words # {}
  /\ request.target_words # <<>>
  /\ ToSet(request.target_words) \cap response.safe_words # {}

\* C24 (as stated): for a word position a and a caller position b, both of
\* positive level and lesson, a < b in the (level, lesson) ordering iff
\* absolute(a) < absolute(b), likewise for b < a, and free and strict
\* validation agree on whether the word is later than the caller.
PosLess(a, b) == a[1] < b[1] \/ (a[1] = b[1] /\ a[2] < b[2])

KeyAgreesWithOrder ==
  LET a == response.position
      b == <<request.user_hsk, request.user_lesson>>
  IN  /\ PosLess(a, b)
           <=> response.word_absolute_lesson < response.current_absolute_lesson
      /\ PosLess(b, a)
           <=> response.current_absolute_lesson < response.word_absolute_lesson
      /\ (~ response.free_safe) <=> (response.strict_class = "invalid")

C24_AbsoluteKeyOrderPreserving ==
  ( /\ response.kind = "compare"
    /\ response.position[1] >= 1 /\ response.position[2] >= 1 )
  => KeyAgreesWithOrder

\* C24 (amended): the same for positions whose lesson is one of the ten
\* lessons of its level.
C24_KeyOrderPreservingWithinTen ==
  ( /\ response.kind = "compare"
    /\ response.position[1] >= 1 /\ response.position[2] \in 1..10
    /\ request.user_lesson \in 1..10 )
  => KeyAgreesWithOrder

\* a word of an earlier level and a later lesson number than the caller's
C24_Witness ==
  /\ response.kind = "compare"
  /\ response.position[1] >= 1 /\ response.position[2] \in 1..10
  /\ request.user_lesson \in 1..10
  /\ response.position[1] < request.user_hsk
  /\ response.position[2] > request.user_lesson
  /\ response.free_safe /\ response.strict_class = "known"

\* C25: whenever the validator is loaded, every word of its curriculum is
\* registered with jieba, after a load, a reload and a seeding alike, so an
\* entry point that has run the engine has run it with all words registered;
\* and every word of the recommender's vocabulary is registered whenever
\* the recommender holds tokenized content or is loaded.
C25_RegisteredBeforeReady ==
  /\ loaded => DOMAIN curriculum \subseteq jieba_dict
  /\ ( /\ response.kind \notin {"none", "seed"}
       /\ response # NotReady
       /\ request.op \in ValidatorOps )
     => /\ loaded
        /\ DOMAIN curriculum \subseteq jieba_dict
  /\ (rec.loaded \/ rec.stories # <<>> \/ rec.audiobooks # <<>>)
     => DOMAIN rec.vocab_by_hanzi \subseteq jieba_dict

\* a seeded curriculum over a loaded one, content loaded, and /segment answered
C25_Witness ==
  /\ loaded /\ version = "test-seed" /\ DOMAIN curriculum # {}
  /\ curriculum_file # NoCurriculumFile
  /\ rec.loaded /\ rec.stories # <<>>
  /\ response.kind = "segment"
  /\ DOMAIN curriculum \subseteq jieba_dict

\* C26: in a response of recommend with cap k, the items of each tier are the
\* first k, by rank, of the scored items in the tier's range, where an item
\* ranks ahead of another iff its comprehension is higher, or equal and it
\* comes earlier in load order (stories, then audiobooks); so a tier holds at
\* most k items in non-increasing comprehension order.
RanksAhead(items, i, j) ==
  \/ FracLess(items[j].comprehension, items[i].comprehension)
  \/ /\ ~ FracLess(items[i].comprehension, items[j].comprehension)
     /\ i < j

ExpectedTierItems(items, config, k) ==
  LET range == {i \in DOMAIN items : in_tier(config, items[i])}
      Rank(i) == 1 + Cardinality({j \in range : RanksAhead(items, j, i)})
      At(n) == CHOOSE i \in range : Rank(i) = n
  IN  [n \in 1..Min(k, Cardinality(range)) |-> ContentItem(items[At(n)])]

C27_BanTokensMostAdvanced ==
  ( /\ response.kind = "validate_reading"
    /\ ~ response.ok
    /\ FilterWords(request.text) # <<>> )
  => LET offending == response.too_many_unknowns
         ban == response.suggestions.ban_tokens
         Abs(w) == absolute_lesson(_parse_position(curriculum[w])[1],
                                   _parse_position(curriculum[w])[2])
     IN  /\ response.suggestions.present
         /\ ban \subseteq offending
         /\ Cardinality(ban) <= 10
         /\ Cardinality(offending) <= 10 => ban = offending
         /\ Cardinality(offending) > 10 =>
              /\ Cardinality(ban) = 10
              /\ \A b \in ban : \A w \in offending \ ban : Abs(w) <= Abs(b)
         /\ response.suggestions.require_tokens = response.focus_words_missing
         /\ response.suggestions.target_range
              = [min_unknown_ratio |-> 100, max_unknown_ratio |-> 200]

\* C28: a reload that raises partway on a loaded recommender leaves the
\* recommender as it was: its vocabulary maps, lesson order, lesson word map,
\* cumulative known sets, stories, audiobooks, version and loaded flag keep
\* their values across the step, and so do the validator's curriculum, version
\* and loaded flag.
C28_FailedReloadKeepsSnapshot ==
  [][ (rec.loaded /\ LoadContentRaises) =>
        /\ rec' = rec
        /\ curriculum' = curriculum /\ version' = version /\ loaded' = loaded
    ]_vars

\* the validator's fields and its cache files keep their values over the step
ValidatorKept ==
  /\ curriculum' = curriculum /\ version' = version /\ loaded' = loaded
  /\ curriculum_file' = curriculum_file

\* C29: in every POST /sync step: (1) with an API key configured, a request
\* whose X-API-Key header is missing or different is answered 401, no sync
\* call is made and the validator is kept; (2) an authorised sync whose version
\* check is answered "unchanged" makes no call but check_version (no download,
\* no write of a cache file, no reload) and keeps the validator and its files;
\* (3) an authorised sync whose version check, or whose download, fails on
\* all its attempts answers success = false and changed = false as a normal
\* response and keeps the validator; (4) the validator is reloaded, or any of
\* its fields changes, only in a step whose response says changed = true, and
\* then the reload is the last call, after the cache files were written.
C29_SyncFrame ==
  [][ (Idle /\ request'.op = "sync") =>
        LET req == request'
            resp == response'
            authorized == verify_api_key(req.settings, req.x_api_key) = Authorized
            no_version == req.backend.version_failures >= StopAfterAttempt
            unchanged == /\ ~ no_version
                         /\ "changed" \in DOMAIN req.backend.version_info
                         /\ ~ req.backend.version_info.changed
            no_export == /\ ~ no_version /\ ~ unchanged
                         /\ req.backend.export_failures >= StopAfterAttempt
        IN  /\ ( /\ req.settings.API_KEY # ""
                 /\ req.x_api_key # <<req.settings.API_KEY>> )
               => /\ resp.kind = "http_error" /\ resp.status = 401
                  /\ resp.steps = <<>>
                  /\ ValidatorKept
            /\ (authorized /\ unchanged)
               => /\ resp.kind = "sync" /\ resp.success /\ ~ resp.changed
                  /\ ToSet(resp.steps) = {"check_version"}
                  /\ ValidatorKept
            /\ (authorized /\ (no_version \/ no_export))
               => /\ resp.kind = "sync" /\ ~ resp.success /\ ~ resp.changed
                  /\ ValidatorKept
            /\ ("reload" \in ToSet(resp.steps) \/ ~ ValidatorKept)
               => /\ resp.kind = "sync" /\ resp.changed
                  /\ Len(resp.steps) >= 3
                  /\ SubSeq(resp.steps, Len(resp.steps) - 2, Len(resp.steps))
                       = <<"_save_curriculum", "_save_version", "reload">>
    ]_vars

\* a loaded validator has answered a sync whose download failed on all three
\* attempts after a version check that succeeded on its third
C29_Witness ==
  /\ request.op = "sync"
  /\ loaded /\ curriculum_file \in CurriculumFiles
  /\ response.kind = "sync" /\ ~ response.success /\ ~ response.changed
  /\ response.steps = <<"check_version", "check_version", "check_version",
                        "fetch_curriculum", "fetch_curriculum",
                        "fetch_curriculum">>

\* lifespan is at "Load recommender", there is no content.json, and a full
\* sync would succeed with changed data
NoContentCacheGoodBackend ==
  /\ request.op = "lifespan" /\ request.pc = "recommender"
  /\ request.cache = <<>>
  /\ sync_full("", request.backend).result.success
  /\ sync_full("", request.backend).result.changed

\* lifespan is at "Load validator", there is no curriculum.json, and a sync
\* would succeed with downloaded data
NoCurriculumCacheGoodBackend ==
  /\ request.op = "lifespan" /\ request.pc = "validator"
  /\ request.cache = <<>>
  /\ sync(request.backend).result.success
  /\ sync(request.backend).result.changed

\* the validator half of C30: a startup without curriculum.json whose sync
\* succeeds with downloaded data leads to a loaded validator
ValidatorBootstraps == NoCurriculumCacheGoodBackend ~> loaded

\* the recommender half of C30: a startup without content.json whose full
\* sync would succeed with changed data leads to a loaded recommender
RecommenderBootstraps == NoContentCacheGoodBackend ~> rec.loaded

\* C30: a startup that finds no content.json, with a backend whose full sync
\* succeeds with changed data, leads to a loaded recommender with no request
\* sent to the service; a startup that finds no curriculum.json, with a
\* backend whose sync succeeds with downloaded data, leads to a loaded
\* validator.
C30_StartupBootstraps == RecommenderBootstraps /\ ValidatorBootstraps

====
